---- MODULE Spec2Model ----
(***************************************************************************)
(* A model of Polly's PPCGCodeGeneration pass                              *)
(* (lib/CodeGen/PPCGCodeGeneration.cpp): the analyses run on a region      *)
(* (must-kill information, array extents, bounds and offsets), and the     *)
(* GPUNodeBuilder that lowers the GPU AST to host runtime calls and        *)
(* kernel functions.                                                       *)
(*                                                                         *)
(* Symbolic isl sets and expressions are modelled by their values for one  *)
(* concrete choice of the region parameters: an access set is a finite set *)
(* of index tuples, a bound or an offset is an integer.  LLVM values are   *)
(* records [kind, name, ty]; the emitted host code is the sequence of      *)
(* host-runtime calls in emission order.                                   *)
(***************************************************************************)
EXTENDS Integers, Sequences, FiniteSets, TLC

VARIABLES
    pc,                 \* position in PPCGCodeGeneration::runOnScop
    ManagedMemory,      \* cl::opt polly-acc-codegen-managed-memory
    FailOnVerifyModuleFailure, \* cl::opt polly-acc-fail-on-verify-module-failure
    Arch,               \* GPUNodeBuilder::Arch, the target of the kernels
    S,                  \* the Scop handed to runOnScop
    inputs,             \* the family of kernels the scheduler draws from
    Prog,               \* gpu_prog: the gpu_array_info of every array
    KillsInfo,          \* MustKillsInfo computed by createPPCGScop
    PPCGScop,           \* ppcg_scop built by createPPCGScop: its schedule
    budget,             \* number of AST user nodes still to be visited
    loops,              \* ids of the host loops around the visited node
    visited,            \* AST user nodes lowered so far, in traversal order
    hostCode,           \* host-runtime calls emitted so far, in order
    BuildSuccessful,    \* GPUNodeBuilder::BuildSuccessful
    DeepestSequential,  \* GPUNodeBuilder::DeepestSequential
    DeepestParallel,    \* GPUNodeBuilder::DeepestParallel
    DeviceAllocations,  \* GPUNodeBuilder::DeviceAllocations
    IDToValue,          \* IslExprBuilder::IDToValue (insertion ordered)
    ValueMap,           \* IslNodeBuilder::ValueMap
    ScalarMap,          \* BlockGenerator::ScalarMap
    InsertPoint,        \* the function Builder inserts code into
    lastKernel,         \* what lowering the last Kernel node produced
    GPUModule,          \* GPUNodeBuilder::GPUModule: the name of the module, "" if null
    GPUContext,         \* GPUNodeBuilder::GPUContext: the call that returned it, << >> if unset
    GPUTarget,          \* what the target registry and the target machine answer
    RTC                 \* operand 0 of the branch guarding the region

inputVars == <<ManagedMemory, FailOnVerifyModuleFailure, Arch, S, inputs, GPUTarget>>

vars == <<pc, ManagedMemory, FailOnVerifyModuleFailure, Arch, S, inputs, Prog, KillsInfo, budget, loops, visited,
          hostCode, BuildSuccessful, DeepestSequential, DeepestParallel,
          DeviceAllocations, IDToValue, lastKernel, RTC, PPCGScop, ValueMap,
          ScalarMap, InsertPoint, GPUModule, GPUContext, GPUTarget>>

\* The binding tables of the host code besides IDToValue, and the builder.
bindingVars == <<ValueMap, ScalarMap, InsertPoint>>

(***************************************************************************)
(* Bounds of the model                                                     *)
(***************************************************************************)
MaxNodes == 3       \* user nodes of a host AST explored node by node
MaxDepth == 1       \* host loops around a node
MaxInputNodes == 1  \* user nodes of a host AST when the inputs are varied
MaxHazardNodes == 2 \* user nodes of a host AST when grids and blocks are varied
MaxK == 2           \* largest constant k of an access A[i + k]
MaxIter == 2        \* largest value of the iterator i of an access A[i + k]
MaxFinalizeNodes == 2 \* user nodes of a host AST when the finalizer is varied
MaxTreeNodes == 3   \* user nodes of the device AST of a kernel
MaxBindingNodes == 2 \* user nodes of a host AST when the memory mode is varied

LoopIds == <<"c0", "c1", "c2">>

(***************************************************************************)
(* Generic helpers                                                         *)
(***************************************************************************)
Range(s) == { s[i] : i \in DOMAIN s }

Max2(a, b) == IF a >= b THEN a ELSE b

SetMin(X) == CHOOSE x \in X : \A y \in X : x <= y

SetMax(X) == CHOOSE x \in X : \A y \in X : x >= y

\* llvm::SetVector: a sequence without duplicates, in insertion order.
SVInsert(sv, x) == IF x \in Range(sv) THEN sv ELSE Append(sv, x)

RECURSIVE SVInsertAll(_, _)
SVInsertAll(sv, xs) ==
    IF xs = << >> THEN sv ELSE SVInsertAll(SVInsert(sv, Head(xs)), Tail(xs))

SVRemove(sv, x) == SelectSeq(sv, LAMBDA y : y # x)

\* A finite set as a sequence in some fixed order (iteration over a set).
RECURSIVE SetToSeq(_)
SetToSeq(X) ==
    IF X = {} THEN << >>
    ELSE LET x == CHOOSE y \in X : TRUE IN <<x>> \o SetToSeq(X \ {x})

RECURSIVE Product(_)
Product(s) == IF s = << >> THEN 1 ELSE Head(s) * Product(Tail(s))

RECURSIVE Count(_, _)
Count(s, calls) ==
    IF s = << >> THEN 0
    ELSE (IF Head(s).call \in calls THEN 1 ELSE 0) + Count(Tail(s), calls)

\* IDToValue is a MapVector: a sequence of <<id, value>> pairs.
IDCount(m, id) == Cardinality({ i \in DOMAIN m : m[i][1] = id })

IDLookup(m, id) == m[CHOOSE i \in DOMAIN m : m[i][1] = id][2]

IDSet(m, id, v) ==
    IF IDCount(m, id) > 0
    THEN [ i \in DOMAIN m |-> IF m[i][1] = id THEN <<id, v>> ELSE m[i] ]
    ELSE Append(m, <<id, v>>)

IDRemove(m, id) == SelectSeq(m, LAMBDA e : e[1] # id)

(***************************************************************************)
(* LLVM types and values                                                   *)
(***************************************************************************)
\* Type::getPrimitiveSizeInBits: 0 for pointer (and other non-primitive) types.
getPrimitiveSizeInBits(T) ==
    CASE T = "i1"     -> 1
      [] T = "i8"     -> 8
      [] T = "i32"    -> 32
      [] T = "i64"    -> 64
      [] T = "float"  -> 32
      [] T = "double" -> 64
      [] OTHER        -> 0

\* Type::getScalarSizeInBits: the primitive size of the scalar type.
getScalarSizeInBits(T) == getPrimitiveSizeInBits(T)

computeSizeInBytes(T) ==
    LET bytes == getPrimitiveSizeInBits(T) \div 8
    IN  IF bytes = 0 THEN getScalarSizeInBits(T) \div 8 ELSE bytes

\* Size in bytes of a value of type T in a kernel module whose data layout is
\* computeNVPTXDataLayout(is64Bit) / computeSPIRDataLayout(is64Bit).
PointerSizeInBytes(is64Bit) == IF is64Bit THEN 8 ELSE 4

TypeSizeInBytes(T, is64Bit) ==
    CASE T = "i1"     -> 1
      [] T = "i8"     -> 1
      [] T = "i32"    -> 4
      [] T = "i64"    -> 8
      [] T = "float"  -> 4
      [] T = "double" -> 8
      [] OTHER        -> PointerSizeInBytes(is64Bit)

\* The data layout createKernelFunction gives the kernel module.
is64Bit(arch) == arch # "SPIR32"

\* ScopArrayInfo::getElemSizeInBytes, of the host data layout.
getElemSizeInBytes(SAI) == TypeSizeInBytes(SAI.elemTy, TRUE)

isFunction(V) == V.kind = "fn"

\* Function::isIntrinsic: the name starts with "llvm.".
isIntrinsic(F) == F.name[1] = "llvm"

\* isValidFunctionInKernel that accepts every intrinsic.
isValidFunctionInKernelAnyIntrinsic(F) == isIntrinsic(F)

isValidFunctionInKernel(F) ==
    isIntrinsic(F) /\ Len(F.name) >= 2 /\ F.name[2] = "sqrt"

isValidSubtreeValue(V) == ~isFunction(V)

(***************************************************************************)
(* The Scop's arrays.  A ScopArrayInfo is a record                         *)
(*   name, kind ("array", "value", "phi", "exitphi"), n_index, elemTy,     *)
(*   sizes    : the declared size of each dimension, 0 for "no size"       *)
(*              (getDimensionSizePw(0) of a non-Fortran array is null),    *)
(*   users    : the instructions using the base pointer,                   *)
(*   written  : whether the region has a write access to the array,        *)
(*   accessed : the elements accessed in the region (index tuples), the    *)
(*              range of the access relations intersected with the         *)
(*              statements' iteration domains.                             *)
(***************************************************************************)
getBasePtr(SAI) ==
    [kind |-> "baseptr", name |-> <<SAI.name>>,
     ty |-> IF SAI.n_index > 0 THEN "ptr" ELSE SAI.elemTy]

isPHIKind(SAI) == SAI.kind = "phi"

isValueKind(SAI) == SAI.kind = "value"

\* Region::contains(Instruction)
RegionContains(Scop, I) == I \in Scop.region

\* isScalarUsesContainedInScop that is content with one use inside the region.
isScalarUsesContainedInScopAny(Scop, SAI) ==
    \E U \in SAI.users : RegionContains(Scop, U)

isScalarUsesContainedInScop(Scop, SAI) ==
    \A U \in SAI.users : RegionContains(Scop, U)

\* The ids of the arrays to kill, in S.arrays() order (KillMemIds).
KillMemIds(Scop) ==
    LET sel == SelectSeq(Scop.arrays,
                   LAMBDA SAI : isPHIKind(SAI) \/
                       (isValueKind(SAI) /\ isScalarUsesContainedInScop(Scop, SAI)))
    IN  [ i \in DOMAIN sel |-> sel[i].name ]

\* One pass of the loop over KillMemIds: Info is [KillsSchedule, TaggedMustKills],
\* KillsSchedule being << >> (nullptr) or <<domain>>, the set of kill statements.
RECURSIVE KillLoop(_, _)
KillLoop(Info, ids) ==
    IF ids = << >> THEN Info
    ELSE LET phiId          == Head(ids)
             KillStmtId     == <<"SKill_phantom_", phiId>>
             PhantomRefId   == <<"ref_phantom", phiId>>
             TaggedMustKill == [stmt |-> KillStmtId, ref |-> PhantomRefId,
                                mem |-> phiId]
             KillSchedule   == {KillStmtId}
         IN  KillLoop(
               [KillsSchedule   |->
                    IF Info.KillsSchedule # << >>
                    THEN <<Info.KillsSchedule[1] \cup KillSchedule>>
                    ELSE <<KillSchedule>>,
                TaggedMustKills |-> Info.TaggedMustKills \cup {TaggedMustKill}],
               Tail(ids))

computeMustKillsInfo(Scop) ==
    KillLoop([KillsSchedule |-> << >>, TaggedMustKills |-> {}], KillMemIds(Scop))

(***************************************************************************)
(* Extents, bounds, sizes and offsets of arrays                            *)
(***************************************************************************)
\* All index tuples of the array's space within the box the extent lies in.
IndexBox(SAI, lo, hi) ==
    { x \in [1..SAI.n_index -> lo..hi] : TRUE }

\* The accesses of the whole region, S->getAccesses() restricted to the
\* statement domains.
AccessUnion(Scop) ==
    UNION { { <<Scop.arrays[i].name, x>> : x \in Scop.arrays[i].accessed } :
              i \in DOMAIN Scop.arrays }

\* getExtent that looks at the number of dimensions before it looks at the
\* accesses of the region.
getExtentScalarFirst(Scop, SAI) ==
    IF SAI.n_index = 0 THEN { << >> }
    ELSE IF SAI.accessed = {} THEN {}
    ELSE { x \in [1..SAI.n_index -> 0..SetMax({ y[1] : y \in SAI.accessed })] :
             \E y \in SAI.accessed : y[1] = x[1] }

getExtent(Scop, SAI) ==
    LET AccessUSet == AccessUnion(Scop)
    IN  IF AccessUSet = {} THEN {}
        ELSE IF SAI.n_index = 0 THEN { << >> }
        ELSE LET AccessSet == SAI.accessed
             IN  IF AccessSet = {} THEN {}
                 ELSE LET OuterMin == SetMin({ x[1] : x \in AccessSet })
                          OuterMax == SetMax({ x[1] : x \in AccessSet })
                          top      == SetMax({OuterMax} \cup Range(SAI.sizes))
                          low      == IF OuterMin < 0 THEN OuterMin ELSE 0
                      IN  { x \in IndexBox(SAI, low, top) :
                              /\ OuterMin <= x[1]
                              /\ OuterMax >= x[1]
                              /\ \A i \in 2..SAI.n_index : x[i] >= 0
                              /\ \A i \in 1..SAI.n_index :
                                    SAI.sizes[i] # 0 => SAI.sizes[i] > x[i] }

\* OuterBound that takes the largest index for the number of elements.
OuterBoundNoPlusOne(extent) ==
    IF extent = {} THEN 0 ELSE SetMax({ x[1] : x \in extent })

\* bound[0] of setArrayBounds, from the extent.
OuterBound(extent) ==
    IF extent = {} THEN 0 ELSE SetMax({ x[1] : x \in extent }) + 1

setArrayBounds(extent, SAI) ==
    [ i \in 1..SAI.n_index |-> IF i = 1 THEN OuterBound(extent) ELSE SAI.sizes[i] ]

\* One gpu_array_info as createArrays fills it in.
createArray(Scop, SAI) ==
    LET extent == getExtent(Scop, SAI)
    IN  [name    |-> SAI.name,
         size    |-> getPrimitiveSizeInBits(SAI.elemTy) \div 8,
         n_index |-> SAI.n_index,
         extent  |-> extent,
         bound   |-> setArrayBounds(extent, SAI),
         read_only_scalar |-> (~SAI.written) /\ SAI.n_index = 0,
         user    |-> SAI]

createArrays(Scop) ==
    [ i \in DOMAIN Scop.arrays |-> createArray(Scop, Scop.arrays[i]) ]

gpu_array_is_scalar(Array) == Array.n_index = 0

gpu_array_is_read_only_scalar(Array) == Array.read_only_scalar

getArraySize(Array) ==
    IF ~gpu_array_is_scalar(Array)
    THEN Array.size * Product(Array.bound)
    ELSE Array.size

\* isl_set_lexmin of a finite set of tuples: the empty set, or the singleton
\* holding the lexicographically smallest element.
LexLess(x, y) ==
    \E i \in DOMAIN x : x[i] < y[i] /\ \A j \in 1..(i - 1) : x[j] = y[j]

LexMin(X) == { x \in X : \A y \in X : y # x => LexLess(x, y) }

RECURSIVE OffsetLoop(_, _, _, _)
OffsetLoop(Array, Min, i, Result) ==
    IF i > Array.n_index THEN Result
    ELSE LET scaled == IF i > 1 THEN Result * Array.bound[i - 1] ELSE Result
             DimMin == SetMin({ x[i] : x \in Min })
         IN  OffsetLoop(Array, Min, i + 1, scaled + DimMin)

\* << >> models the null offset, <<v>> the offset v.
getArrayOffset(Array) ==
    IF gpu_array_is_scalar(Array) THEN << >>
    ELSE LET Min     == LexMin(Array.extent)
             ZeroSet == { [ i \in 1..Array.n_index |-> 0 ] }
         IN  IF Min \subseteq ZeroSet THEN << >>
             ELSE <<OffsetLoop(Array, Min, 1, 0)>>

(***************************************************************************)
(* AST user nodes.  A node is a record [name, type, stmt, read]: name is   *)
(* the id of the node's expression as <<prefix, rest>>, type the           *)
(* ppcg_kernel_stmt type of its annotation ("domain", "copy", "sync" or    *)
(* anything else), stmt the index of the ScopStmt of a domain statement,   *)
(* read the direction flag of a copy.                                      *)
(***************************************************************************)
isPrefix(String, Prefix) == String[1] = Prefix

\* The branch GPUNodeBuilder::createUser takes for a node.
createUserBranch(Node) ==
    IF Node.name = <<"kernel", "">> THEN "kernel"
    ELSE IF isPrefix(Node.name, "to_device") THEN "to_device"
    ELSE IF isPrefix(Node.name, "from_device") THEN "from_device"
    ELSE CASE Node.type = "domain" -> "domain"
           [] Node.type = "copy"   -> "copy"
           [] Node.type = "sync"   -> "sync"
           [] OTHER                -> "none"

\* createUserInKernel that treats a node of no known type as a
\* synchronization.
createUserInKernelSyncByDefault(Node) ==
    LET br == createUserBranch(Node)
    IN  CASE br = "domain" -> << [op |-> "stmt", stmt |-> Node.stmt] >>
          [] br = "copy"   -> << [op |-> IF Node.read THEN "shared.read"
                                         ELSE "shared.write", stmt |-> 0] >>
          [] OTHER         -> << [op |-> "barrier0", stmt |-> 0] >>

\* The kernel code one device node emits: createScopStmt, createKernelCopy or
\* createKernelSync; nothing for any other node.
createUserInKernel(Node) ==
    LET br == createUserBranch(Node)
    IN  CASE br = "domain" -> << [op |-> "stmt", stmt |-> Node.stmt] >>
          [] br = "copy"   -> << [op |-> IF Node.read THEN "shared.read"
                                         ELSE "shared.write", stmt |-> 0] >>
          [] br = "sync"   -> << [op |-> "barrier0", stmt |-> 0] >>
          [] OTHER         -> << >>

\* createTree that emits the barriers after everything else.
createTreeBarriersLast(tree) ==
    LET isSync(N) == createUserBranch(N) = "sync"
        others    == SelectSeq(tree, LAMBDA N : ~isSync(N))
        syncs     == SelectSeq(tree, isSync)
    IN  [ i \in 1..(Len(others) + Len(syncs)) |->
            IF i <= Len(others) THEN createUserInKernel(others[i])[1]
            ELSE createUserInKernel(syncs[i - Len(others)])[1] ]

\* create(Kernel->tree): the nodes of the device AST in traversal order.
RECURSIVE createTree(_)
createTree(tree) ==
    IF tree = << >> THEN << >>
    ELSE createUserInKernel(Head(tree)) \o createTree(Tail(tree))

(***************************************************************************)
(* References of a kernel (getReferencesInKernel)                          *)
(***************************************************************************)
\* addReferencesFromStmt: the operands of the statement's instructions; the
\* synthesizable ones (kind "scev") are collected as SCEVs, the others as values.
StmtOperands(Stmt) == UNION { I.operands : I \in Range(Stmt.insts) }

StmtValues(Stmt) == { V \in StmtOperands(Stmt) : V.kind # "scev" }

StmtSCEVs(Stmt) == { V \in StmtOperands(Stmt) : V.kind = "scev" }

\* findValues: the values a SCEV is built from, named by the SCEV.
findValues(Expr, Universe) == { V \in Universe : V.name[1] \in Range(Expr.name) }

\* The statements collectReferencesInGPUStmt visits: the user nodes whose
\* name starts with "Stmt".
ReferencedStmts(Scop, Kernel) ==
    LET nodes == SelectSeq(Kernel.tree, LAMBDA N : isPrefix(N.name, "Stmt"))
    IN  [ i \in DOMAIN nodes |-> Scop.stmts[nodes[i].stmt] ]

RECURSIVE CollectValues(_, _)
CollectValues(sv, stmts) ==
    IF stmts = << >> THEN sv
    ELSE CollectValues(SVInsertAll(sv, SetToSeq(StmtValues(Head(stmts)))),
                       Tail(stmts))

CollectSCEVs(stmts) == UNION { StmtSCEVs(st) : st \in Range(stmts) }

RECURSIVE RemoveAll(_, _)
RemoveAll(sv, xs) ==
    IF xs = << >> THEN sv ELSE RemoveAll(SVRemove(sv, Head(xs)), Tail(xs))

\* The values every SCEV leaf can name: the values bound in IDToValue.
BoundValues(ids) == { ids[i][2] : i \in DOMAIN ids }

\* SubtreeValues before any removal: the values of IDToValue, the values
\* referenced by the kernel's statements, and the values its SCEVs use.
CollectedSubtreeValues(Scop, Kernel, ids) ==
    LET stmts   == ReferencedStmts(Scop, Kernel)
        fromIDs == SVInsertAll(<< >>, [ i \in DOMAIN ids |-> ids[i][2] ])
        fromSt  == CollectValues(fromIDs, stmts)
        leaves  == UNION { findValues(E, BoundValues(ids)) : E \in CollectSCEVs(stmts) }
    IN  SVInsertAll(fromSt, SetToSeq(leaves))

\* RawSubtreeValues that leaves the values of the kernel's space ids in.
RawSubtreeValuesKeepIterators(Scop, Kernel, ids) ==
    LET all      == CollectedSubtreeValues(Scop, Kernel, ids)
        noArrays == RemoveAll(all, [ i \in DOMAIN Scop.arrays |->
                                        getBasePtr(Scop.arrays[i]) ])
    IN  RemoveAll(noArrays, [ i \in DOMAIN Scop.params |->
                                        IDLookup(ids, Scop.params[i].id) ])

\* SubtreeValues after removing base pointers, parameters and the ids of the
\* kernel's space.
RawSubtreeValues(Scop, Kernel, ids) ==
    LET all      == CollectedSubtreeValues(Scop, Kernel, ids)
        noArrays == RemoveAll(all, [ i \in DOMAIN Scop.arrays |->
                                        getBasePtr(Scop.arrays[i]) ])
        noParams == RemoveAll(noArrays, [ i \in DOMAIN Scop.params |->
                                        IDLookup(ids, Scop.params[i].id) ])
    IN  RemoveAll(noParams, [ i \in DOMAIN Kernel.space_set |->
                                        IDLookup(ids, Kernel.space_set[i]) ])

getFunctionsFromRawSubtreeValues(RawSubtreeValuesSeq) ==
    SVInsertAll(<< >>, SelectSeq(RawSubtreeValuesSeq, isFunction))

getReferencesInKernel(Scop, Kernel, ids) ==
    LET SubtreeValues == RawSubtreeValues(Scop, Kernel, ids)
    IN  [Values    |-> SelectSeq(SubtreeValues, isValidSubtreeValue),
         Functions |-> getFunctionsFromRawSubtreeValues(SubtreeValues),
         Raw       |-> SubtreeValues]

(***************************************************************************)
(* Statements with functions a kernel cannot call                          *)
(***************************************************************************)
\* An instruction is [isCall, callee, operands]; callee is what
\* getCalledFunction returns for a call, NullFn (nullptr) when the call is
\* not a direct call of a function; an operand has a pointer-to-function type
\* when it is a function or a value of type "fnptr".
NullFn == [kind |-> "null", name |-> <<"">>, ty |-> "void"]

\* What isValidFunctionInKernel(nullptr) does: with assertions the assert
\* fails and the process is aborted; without them F->isIntrinsic() reads
\* through a null pointer, which is undefined: the process crashes or the
\* call yields either answer.
NullDerefOutcomes == {"crash", "true", "false"}

\* isValidFunctionInKernel(Call->getCalledFunction())
isValidCalledFunction(F, ub) ==
    IF F = NullFn THEN ub
    ELSE IF isValidFunctionInKernel(F) THEN "true" ELSE "false"

\* The instructions of the block are visited in order; the answer is
\* "true", "false", or "crash" when the process does not survive the visit.
RECURSIVE containsInvalidKernelFunctionInBllock(_, _)
containsInvalidKernelFunctionInBllock(insts, ub) ==
    IF insts = << >> THEN "false"
    ELSE LET I     == Head(insts)
             valid == IF I.isCall THEN isValidCalledFunction(I.callee, ub)
                      ELSE "false"
         IN  IF valid = "crash" THEN "crash"
             ELSE IF valid = "true"
             THEN containsInvalidKernelFunctionInBllock(Tail(insts), ub)
             ELSE IF \E SrcVal \in I.operands : SrcVal.ty = "fnptr" THEN "true"
             ELSE containsInvalidKernelFunctionInBllock(Tail(insts), ub)

RECURSIVE containsInvalidKernelFunctionInStmts(_, _)
containsInvalidKernelFunctionInStmts(stmts, ub) ==
    IF stmts = << >> THEN "false"
    ELSE LET r == containsInvalidKernelFunctionInBllock(Head(stmts).insts, ub)
         IN  IF r = "false"
             THEN containsInvalidKernelFunctionInStmts(Tail(stmts), ub)
             ELSE r

containsInvalidKernelFunction(Scop, ub) ==
    containsInvalidKernelFunctionInStmts(Scop.stmts, ub)

(***************************************************************************)
(* Kernels.  A ppcg_kernel is a record                                     *)
(*   id, n_grid, grid_size, n_block, block_dim,                            *)
(*   requires    : the indices i with ppcg_kernel_requires_array_argument, *)
(*   space_set   : the ids of the set dimensions of Kernel->space (the     *)
(*                 host loops around the kernel),                          *)
(*   space_param : the ids of the parameters of Kernel->space,             *)
(*   tree        : the user nodes of the device AST,                       *)
(*   verifyFails : whether verifyModule rejects the kernel's module.       *)
(***************************************************************************)
ppcg_kernel_requires_array_argument(Kernel, i) == i \in Kernel.requires

RequiredArrays(ProgArrays, Kernel) ==
    SelectSeq([ i \in DOMAIN ProgArrays |-> i ],
              LAMBDA i : ppcg_kernel_requires_array_argument(Kernel, i))

\* The formal arguments of the kernel function, in declaration order.  Each is
\* [ent, ty]: the array, id or value the argument is named after, and its type.
createKernelFunctionDecl(ProgArrays, Kernel, SubtreeValues, ids) ==
    LET req    == RequiredArrays(ProgArrays, Kernel)
        arrays == [ j \in DOMAIN req |->
                      [ent |-> <<"array", ProgArrays[req[j]].name>>,
                       ty  |-> IF gpu_array_is_read_only_scalar(ProgArrays[req[j]])
                               THEN ProgArrays[req[j]].user.elemTy
                               ELSE "ptr"] ]
        iters  == [ j \in DOMAIN Kernel.space_set |->
                      [ent |-> <<"id", Kernel.space_set[j]>>, ty |-> "i64"] ]
        params == [ j \in DOMAIN Kernel.space_param |->
                      [ent |-> <<"id", Kernel.space_param[j]>>,
                       ty  |-> IDLookup(ids, Kernel.space_param[j]).ty] ]
        values == [ j \in DOMAIN SubtreeValues |->
                      [ent |-> <<"value", SubtreeValues[j].name[1]>>,
                       ty  |-> SubtreeValues[j].ty] ]
    IN  arrays \o iters \o params \o values

\* IDToValue while the kernel body is generated: the ids of the kernel's space
\* are rebound to the kernel function's arguments.
RECURSIVE BindArgs(_, _)
BindArgs(ids, names) ==
    IF names = << >> THEN ids
    ELSE BindArgs(IDSet(ids, Head(names),
                        [kind |-> "arg", name |-> <<Head(names)>>,
                         ty |-> IF IDCount(ids, Head(names)) > 0
                                THEN IDLookup(ids, Head(names)).ty ELSE "i64"]),
                  Tail(names))

KernelIDToValue(Kernel, ids) ==
    BindArgs(BindArgs(ids, Kernel.space_set), Kernel.space_param)

\* LaunchValueSlots that stores the parameters before the host iterators.
LaunchValueSlotsParamsFirst(ProgArrays, Kernel, SubtreeValues, ids) ==
    LET req    == RequiredArrays(ProgArrays, Kernel)
        arrays == [ j \in DOMAIN req |->
                      [ent  |-> <<"array", ProgArrays[req[j]].user.name>>,
                       size |-> getElemSizeInBytes(ProgArrays[req[j]].user)] ]
        iters  == [ j \in DOMAIN Kernel.space_set |->
                      [ent  |-> <<"id", Kernel.space_set[j]>>,
                       size |-> computeSizeInBytes(
                                    IDLookup(ids, Kernel.space_set[j]).ty)] ]
        params == [ j \in DOMAIN Kernel.space_param |->
                      [ent  |-> <<"id", Kernel.space_param[j]>>,
                       size |-> computeSizeInBytes(
                                    IDLookup(ids, Kernel.space_param[j]).ty)] ]
        values == [ j \in DOMAIN SubtreeValues |->
                      [ent  |-> <<"value", SubtreeValues[j].name[1]>>,
                       size |-> computeSizeInBytes(SubtreeValues[j].ty)] ]
    IN  arrays \o params \o iters \o values

\* The value slots of the launch parameter block, in slot order.  Each is
\* [ent, size]: what is passed, and the entry of ArgSizes written for it.
LaunchValueSlots(ProgArrays, Kernel, SubtreeValues, ids) ==
    LET req    == RequiredArrays(ProgArrays, Kernel)
        arrays == [ j \in DOMAIN req |->
                      [ent  |-> <<"array", ProgArrays[req[j]].user.name>>,
                       size |-> getElemSizeInBytes(ProgArrays[req[j]].user)] ]
        iters  == [ j \in DOMAIN Kernel.space_set |->
                      [ent  |-> <<"id", Kernel.space_set[j]>>,
                       size |-> computeSizeInBytes(
                                    IDLookup(ids, Kernel.space_set[j]).ty)] ]
        params == [ j \in DOMAIN Kernel.space_param |->
                      [ent  |-> <<"id", Kernel.space_param[j]>>,
                       size |-> computeSizeInBytes(
                                    IDLookup(ids, Kernel.space_param[j]).ty)] ]
        values == [ j \in DOMAIN SubtreeValues |->
                      [ent  |-> <<"value", SubtreeValues[j].name[1]>>,
                       size |-> computeSizeInBytes(SubtreeValues[j].ty)] ]
    IN  arrays \o iters \o params \o values

\* The launch parameter block: the 2 * NumArgs entries of Parameters.  The
\* value slots come first; the NumArgs size words ArgSizes[0..NumArgs-1] are
\* stored right after the last value slot (ArgSizes is zero-initialised).
createLaunchParameters(ProgArrays, Kernel, NumArgs, SubtreeValues, ids) ==
    LET slots    == LaunchValueSlots(ProgArrays, Kernel, SubtreeValues, ids)
        ArgSizes == [ i \in 1..NumArgs |->
                        IF i <= Len(slots) THEN slots[i].size ELSE 0 ]
    IN  [ i \in DOMAIN slots |-> [slot |-> "value", ent |-> slots[i].ent, size |-> 0] ]
        \o [ i \in 1..NumArgs |-> [slot |-> "size", ent |-> <<"size", "">>,
                                   size |-> ArgSizes[i]] ]

\* The null Value* that DeviceAllocations[SAI] yields for an array without
\* an entry.
NullAllocation == [array |-> "", size |-> 0]

\* DeviceAllocations[SAI]: the value recorded for the array, null if none.
LookupAllocation(allocations, name) ==
    IF \E a \in allocations : a.array = name
    THEN CHOOSE a \in allocations : a.array = name
    ELSE NullAllocation

\* LaunchParameterCalls that looks the device pointer up with managed memory
\* as well.
LaunchParameterCallsAlways(ProgArrays, Kernel, managed, allocations) ==
    LET req == RequiredArrays(ProgArrays, Kernel)
    IN  [ j \in DOMAIN req |->
            [call |-> "polly_getDevicePtr",
             array |-> ProgArrays[req[j]].user.name, kernel |-> Kernel.id,
             args |-> << LookupAllocation(allocations,
                                          ProgArrays[req[j]].user.name) >>] ]

\* The host-runtime calls createLaunchParameters emits: one polly_getDevicePtr
\* per required array, applied to DeviceAllocations[SAI], unless the memory
\* is managed.
LaunchParameterCalls(ProgArrays, Kernel, managed, allocations) ==
    LET req == RequiredArrays(ProgArrays, Kernel)
    IN  IF managed THEN << >>
        ELSE [ j \in DOMAIN req |->
                 [call |-> "polly_getDevicePtr",
                  array |-> ProgArrays[req[j]].user.name, kernel |-> Kernel.id,
                  args |-> << LookupAllocation(allocations,
                                               ProgArrays[req[j]].user.name) >>] ]

\* DevArray of each required array: with managed memory the pointer
\* getOrCreateManagedDeviceArray derives from the host pointer, otherwise the
\* result of the polly_getDevicePtr call, the one emitted at position at + j.
LaunchDevArrays(ProgArrays, Kernel, managed, at) ==
    LET req == RequiredArrays(ProgArrays, Kernel)
    IN  [ j \in DOMAIN req |->
            IF managed
            THEN [array |-> ProgArrays[req[j]].user.name, from |-> "host", at |-> 0]
            ELSE [array |-> ProgArrays[req[j]].user.name,
                  from |-> "polly_getDevicePtr", at |-> at + j] ]

\* The pointer createLaunchParameters passes for each required array: where
\* it starts from (the device allocation, or with managed memory the base
\* pointer on the host) and by how many elements it is moved from there.
\* With managed memory getOrCreateManagedDeviceArray moves the host pointer
\* forward by the offset and createLaunchParameters moves it back.
LaunchPointers(ProgArrays, Kernel, managed) ==
    LET req == RequiredArrays(ProgArrays, Kernel)
    IN  [ j \in DOMAIN req |->
            LET Offset == getArrayOffset(ProgArrays[req[j]])
                o      == IF Offset # << >> THEN Offset[1] ELSE 0
            IN  IF managed
                THEN [array |-> ProgArrays[req[j]].user.name, from |-> "host",
                      moved |-> o + (0 - o)]
                ELSE [array |-> ProgArrays[req[j]].user.name, from |-> "device",
                      moved |-> 0 - o] ]

\* BlockGenerator::getOrCreateAlloca: the alloca of a scalar is created, in
\* the function fn code is inserted into, unless ScalarMap has one.
getOrCreateAlloca(scalarMap, name, fn) ==
    IF \E e \in scalarMap : e.array = name THEN scalarMap
    ELSE scalarMap \cup { [array |-> name, alloca |-> <<fn, name>>] }

RECURSIVE getOrCreateAllocas(_, _, _)
getOrCreateAllocas(scalarMap, names, fn) ==
    IF names = << >> THEN scalarMap
    ELSE getOrCreateAllocas(getOrCreateAlloca(scalarMap, Head(names), fn),
                            Tail(names), fn)

\* createLaunchParametersAllocas that creates no alloca on the host.
createLaunchParametersNoAllocas(scalarMap, ProgArrays, Kernel, managed, allocations, fn) ==
    scalarMap

\* ScalarMap after createLaunchParameters: without managed memory a
\* read-only scalar is passed by the address of its host alloca; with managed
\* memory getOrCreateManagedDeviceArray takes the host alloca of every scalar
\* that DeviceAllocations does not hold yet.
createLaunchParametersAllocas(scalarMap, ProgArrays, Kernel, managed, allocations, fn) ==
    LET req   == RequiredArrays(ProgArrays, Kernel)
        needs == SelectSeq(req, LAMBDA i :
                    IF managed
                    THEN /\ gpu_array_is_scalar(ProgArrays[i])
                         /\ LookupAllocation(allocations, ProgArrays[i].user.name)
                               = NullAllocation
                    ELSE gpu_array_is_read_only_scalar(ProgArrays[i]))
    IN  getOrCreateAllocas(scalarMap,
                           [ j \in DOMAIN needs |-> ProgArrays[needs[j]].user.name ],
                           fn)

\* ScalarMap while the kernel body is generated: it is cleared, and
\* prepareKernelArguments creates an alloca in the kernel for every scalar
\* among the arguments.
KernelScalarMap(ProgArrays, Kernel, fn) ==
    LET req     == RequiredArrays(ProgArrays, Kernel)
        scalars == SelectSeq(req, LAMBDA i : ~(ProgArrays[i].user.n_index > 0))
    IN  getOrCreateAllocas({}, [ j \in DOMAIN scalars |->
                                   ProgArrays[scalars[j]].user.name ], fn)

\* ValueMap[from] = to for every from in froms, to being the value of the
\* given kind made for from.
ValueMapSetAll(valueMap, froms, kind) ==
    { e \in valueMap : e.from \notin froms }
    \cup { [from |-> V, to |-> [kind |-> kind, name |-> V.name, ty |-> V.ty]] :
             V \in froms }

\* ValueMap while the kernel body is generated: createKernelFunctionDecl maps
\* the parameters and the subtree values to the arguments of the kernel, and
\* setupKernelSubtreeFunctions the functions to their clones in GPUModule.
KernelValueMap(valueMap, Kernel, SubtreeValues, SubtreeFunctions, ids) ==
    LET params == { IDLookup(ids, Kernel.space_param[i]) :
                      i \in DOMAIN Kernel.space_param }
    IN  ValueMapSetAll(ValueMapSetAll(valueMap, params \cup Range(SubtreeValues),
                                      "arg"),
                       Range(SubtreeFunctions), "clone")

getKernelFuncName(Kernel_id) == "FUNC_f_KERNEL_" \o ToString(Kernel_id)

\* One instruction of a kernel function that moves a scalar between the
\* argument arg of the function and the alloca of the array.
ScalarOp(op, array, arg) == [op |-> op, stmt |-> 0, array |-> array, arg |-> arg]

\* The instructions of one argument at kernel entry, for RECURSIVE use over
\* the required arrays from position j on.
RECURSIVE prepareKernelArgumentsFrom(_, _, _)
prepareKernelArgumentsFrom(ProgArrays, req, j) ==
    IF j > Len(req) THEN << >>
    ELSE LET Array == ProgArrays[req[j]]
             name  == Array.user.name
             here  == IF Array.user.n_index > 0 THEN << >>
                      ELSE IF ~gpu_array_is_read_only_scalar(Array)
                           THEN << ScalarOp("load.arg", name, j),
                                   ScalarOp("store.alloca.loaded", name, j) >>
                           ELSE << ScalarOp("store.alloca.arg", name, j) >>
         IN  here \o prepareKernelArgumentsFrom(ProgArrays, req, j + 1)

\* prepareKernelArguments: the instructions at the entry of the kernel.
prepareKernelArguments(ProgArrays, Kernel) ==
    prepareKernelArgumentsFrom(ProgArrays, RequiredArrays(ProgArrays, Kernel), 1)

RECURSIVE finalizeKernelArgumentsFrom(_, _, _, _)
finalizeKernelArgumentsFrom(ProgArrays, req, j, alsoReadOnly) ==
    IF j > Len(req) THEN << >>
    ELSE LET Array == ProgArrays[req[j]]
             name  == Array.user.name
             skip  == \/ Array.user.n_index > 0
                      \/ gpu_array_is_read_only_scalar(Array) /\ ~alsoReadOnly
             here  == IF skip THEN << >>
                      ELSE << ScalarOp("load.alloca", name, j),
                              ScalarOp("store.arg", name, j) >>
         IN  here \o finalizeKernelArgumentsFrom(ProgArrays, req, j + 1, alsoReadOnly)

\* finalizeKernelArgumentsStores that stores the read-only scalars back too.
finalizeKernelArgumentsStoresAll(ProgArrays, Kernel) ==
    finalizeKernelArgumentsFrom(ProgArrays, RequiredArrays(ProgArrays, Kernel), 1, TRUE)

\* finalizeKernelArguments: the instructions at the exit of the kernel.
finalizeKernelArgumentsStores(ProgArrays, Kernel) ==
    finalizeKernelArgumentsFrom(ProgArrays, RequiredArrays(ProgArrays, Kernel), 1, FALSE)

\* The instructions of the kernel function in the order createKernel has them
\* emitted: createKernelFunction with prepareKernelArguments, the device AST,
\* finalizeKernelArguments.
KernelCode(ProgArrays, Kernel) ==
    LET Body == createTree(Kernel.tree)
    IN  prepareKernelArguments(ProgArrays, Kernel)
        \o [ i \in DOMAIN Body |->
               [op |-> Body[i].op, stmt |-> Body[i].stmt, array |-> "", arg |-> 0] ]
        \o finalizeKernelArgumentsStores(ProgArrays, Kernel)

\* finalizeKernelArguments: whether a scalar is stored back at kernel exit.
StoredScalar(ProgArrays, Kernel) ==
    \E i \in DOMAIN ProgArrays :
        /\ ppcg_kernel_requires_array_argument(Kernel, i)
        /\ ~(ProgArrays[i].user.n_index > 0)
        /\ ~gpu_array_is_read_only_scalar(ProgArrays[i])

\* finalizeKernelArguments that wants both a grid and a block dimension.
finalizeKernelArgumentsBothDims(ProgArrays, Kernel, buildSuccessful) ==
    IF StoredScalar(ProgArrays, Kernel)
    THEN IF Kernel.n_block # 0 /\ Kernel.n_grid # 0 THEN FALSE ELSE buildSuccessful
    ELSE buildSuccessful

\* BuildSuccessful after finalizeKernelArguments.
finalizeKernelArguments(ProgArrays, Kernel, buildSuccessful) ==
    IF StoredScalar(ProgArrays, Kernel)
    THEN IF Kernel.n_block # 0 \/ Kernel.n_grid # 0 THEN FALSE ELSE buildSuccessful
    ELSE buildSuccessful

\* What llvm_unreachable does once it is reached: a build with assertions
\* prints the message and aborts; a build without them compiles it to
\* __builtin_unreachable(), whose behaviour is undefined, and the branch that
\* leads to it is dropped, so that execution goes on behind it.
UnreachableOutcomes == {"abort", "fallthrough"}

\* EmitSteps that optimizes the module for every target.
EmitStepsAlwaysOptimizes(arch) ==
    << "OptPasses.run" >>
    \o (IF arch = "SPIR32" \/ arch = "SPIR64"
        THEN << "print", "createKernelSPIR" >>
        ELSE << "createKernelASM" >>)

\* The steps finalizeKernelFunction takes for a module that verifies: the
\* module is optimized unless the target is SPIR, and the text is emitted by
\* the backend (createKernelASM) or printed and rewritten (createKernelSPIR).
EmitSteps(arch) ==
    (IF arch # "SPIR32" /\ arch # "SPIR64" THEN << "OptPasses.run" >> ELSE << >>)
    \o (IF arch = "SPIR32" \/ arch = "SPIR64"
        THEN << "print", "createKernelSPIR" >>
        ELSE << "createKernelASM" >>)

\* What the environment answers createKernelASM: the target is found and
\* emits assembly files, TargetRegistry::lookupTarget finds no target, or
\* addPassesToEmitFile reports that the target cannot emit an assembly file.
TargetOutcomes == {"found", "missing", "noAssemblyFile"}

\* createKernelASM: the assembly text of the module, empty if the target is
\* not found or cannot emit an assembly file.
createKernelASM(target) == IF target = "found" THEN "asm" ELSE ""

\* The text finalizeKernelFunction returns for a module that verifies.
Assembly(arch, target) ==
    IF arch = "SPIR32" \/ arch = "SPIR64" THEN "asm" ELSE createKernelASM(target)

\* finalizeKernelFunction that records the outcome of the last verification.
finalizeKernelFunctionResets(Kernel, buildSuccessful, arch, failOnVerify, ub, target) ==
    IF Kernel.verifyFails
    THEN IF failOnVerify /\ ub = "abort"
         THEN [ASMString |-> "", BuildSuccessful |-> buildSuccessful,
               Steps |-> << "verifyModule", "llvm_unreachable" >>, Fatal |-> TRUE,
               Released |-> FALSE]
         ELSE [ASMString |-> "", BuildSuccessful |-> FALSE,
               Steps |-> << "verifyModule" >>, Fatal |-> FALSE,
               Released |-> FALSE]
    ELSE [ASMString |-> Assembly(arch, target), BuildSuccessful |-> TRUE,
          Steps |-> << "verifyModule" >> \o EmitSteps(arch), Fatal |-> FALSE,
          Released |-> TRUE]

\* finalizeKernelFunction: the kernel text, BuildSuccessful after it, the
\* steps taken and whether the process was aborted.  ub is what the
\* llvm_unreachable of this build does.
finalizeKernelFunction(Kernel, buildSuccessful, arch, failOnVerify, ub, target) ==
    IF Kernel.verifyFails
    THEN IF failOnVerify /\ ub = "abort"
         THEN [ASMString |-> "", BuildSuccessful |-> buildSuccessful,
               Steps |-> << "verifyModule", "llvm_unreachable" >>, Fatal |-> TRUE,
               Released |-> FALSE]
         ELSE [ASMString |-> "", BuildSuccessful |-> FALSE,
               Steps |-> << "verifyModule" >>, Fatal |-> FALSE,
               Released |-> FALSE]
    ELSE [ASMString |-> Assembly(arch, target), BuildSuccessful |-> buildSuccessful,
          Steps |-> << "verifyModule" >> \o EmitSteps(arch), Fatal |-> FALSE,
          Released |-> TRUE]

\* getGridSizes that hands over the first dimension of the grid only.
getGridSizesFirstOnly(Kernel) ==
    << IF Kernel.n_grid >= 1 THEN Kernel.grid_size[1] ELSE 1, 1 >>

\* getGridSizes / getBlockSizes: the sizes, padded with 1 up to 3 dimensions.
PadSizes(sizes) == [ i \in 1..3 |-> IF i <= Len(sizes) THEN sizes[i] ELSE 1 ]

getGridSizes(Kernel) == SubSeq(PadSizes(Kernel.grid_size), 1, 2)

getBlockSizes(Kernel) == PadSizes(Kernel.block_dim)

(***************************************************************************)
(* Inputs: regions, statements and kernels                                 *)
(***************************************************************************)
NoFn == [kind |-> "none", name |-> <<"">>, ty |-> "void"]

FnSqrt == [kind |-> "fn", name |-> <<"llvm", "sqrt", "f32">>, ty |-> "fnptr"]

FnFabs == [kind |-> "fn", name |-> <<"llvm", "fabs", "f32">>, ty |-> "fnptr"]

FnFoo == [kind |-> "fn", name |-> <<"foo">>, ty |-> "fnptr"]

Val(kind, n, ty) == [kind |-> kind, name |-> <<n>>, ty |-> ty]

ScevNC == [kind |-> "scev", name |-> <<"n", "c0">>, ty |-> "i64"]

Inst(isCall, callee, operands) ==
    [isCall |-> isCall, callee |-> callee, operands |-> operands]

SAI(name, kind, n, ty, sizes, users, written, accessed, pattern) ==
    [name |-> name, kind |-> kind, n_index |-> n, elemTy |-> ty, sizes |-> sizes,
     users |-> users, written |-> written, accessed |-> accessed,
     pattern |-> pattern]

\* The elements a one-dimensional access A[i + k], lo <= i <= hi, touches.
AccessRange(k, lo, hi) == { <<i + k>> : i \in lo..hi }

Array1D(name, ty, k, lo, hi) ==
    SAI(name, "array", 1, ty, <<0>>, {}, TRUE, AccessRange(k, lo, hi), <<k, lo, hi>>)

Scalar(name, kind, ty, users, written, isAccessed) ==
    SAI(name, kind, 0, ty, << >>, users, written,
        IF isAccessed THEN { << >> } ELSE {}, << >>)

\* schedule is the schedule tree of the region, invariantLoads the entries
\* that materializing the parameters leaves in ValueMap.
Scop(arrays, params, stmts, has_permutable) ==
    [arrays |-> arrays, params |-> params, stmts |-> stmts,
     region |-> {"I1", "I2"}, has_permutable |-> has_permutable,
     schedule |-> <<"domain", { stmts[i].name : i \in DOMAIN stmts }>>,
     invariantLoads |-> { [from |-> Val("inst", "l", "i64"),
                           to   |-> Val("preload", "l", "i64")] }]

Param(ty) == << [id |-> "n", val |-> Val("param", "n", ty)] >>

Stmt(name, insts) == [name |-> name, insts |-> insts]

DeviceNode(prefix, rest, type, stmt, read) ==
    [name |-> <<prefix, rest>>, type |-> type, stmt |-> stmt, read |-> read,
     array |-> 0]

StmtNode(Scop_, i) == DeviceNode("Stmt", Scop_.stmts[i].name, "domain", i, FALSE)

SyncNode == DeviceNode("sync", "", "sync", 0, FALSE)

CopyNode(read) == DeviceNode(IF read THEN "read" ELSE "write", "", "copy", 0, read)

Template(grid, block, requires, tree, verifyFails) ==
    [n_grid |-> Len(grid), grid_size |-> grid, n_block |-> Len(block),
     block_dim |-> block, requires |-> requires, tree |-> tree,
     verifyFails |-> verifyFails]

\* What is left of the state at the start of runOnScop.
InitGenerator ==
    /\ pc = "start"
    /\ Prog = << >>
    /\ KillsInfo = [KillsSchedule |-> << >>, TaggedMustKills |-> {}]
    /\ loops = << >>
    /\ visited = << >>
    /\ hostCode = << >>
    /\ BuildSuccessful = TRUE
    /\ DeepestSequential = 0
    /\ DeepestParallel = 0
    /\ DeviceAllocations = {}
    /\ IDToValue = << >>
    /\ PPCGScop = << >>
    /\ ValueMap = {}
    /\ ScalarMap = {}
    /\ InsertPoint = ""
    /\ lastKernel = << >>
    /\ GPUModule = ""
    /\ GPUContext = << >>
    /\ RTC = "true"

\* Regions for the lowering of host ASTs: a few array catalogues, statements
\* with and without a call no kernel can make, every outcome of the scheduler.
HostCatalogues ==
    { << Array1D("A", "float", 2, 0, 1) >>,
      << Scalar("s", "value", "float", {"I1"}, TRUE, TRUE),
         Array1D("A", "double", 0, 0, 1) >> }

HostStmts ==
    { << Stmt("S0", << Inst(FALSE, NoFn, {Val("baseptr", "A", "ptr"), ScevNC,
                                          Val("inst", "x", "float")}),
                       Inst(TRUE, FnSqrt, {Val("inst", "x", "float"), FnSqrt}) >>) >>,
      << Stmt("S0", << Inst(TRUE, FnFoo, {Val("inst", "x", "float"), FnFoo}) >>) >> }

HostKernels(Scop_) ==
    { Template(<<2, 1>>, <<2>>, r, << StmtNode(Scop_, 1), SyncNode >>, FALSE) :
        r \in { {}, DOMAIN Scop_.arrays } }
    \cup { Template(<< >>, <<2>>, {}, << StmtNode(Scop_, 1), SyncNode >>, TRUE) }

\* Statements that use functions in every way: a call of llvm.sqrt, a call of
\* a function of the program, a call of another intrinsic, a store of the
\* address of a function, and calls that are not direct calls of a function
\* (through a function pointer or a bitcast of a function), alone, after a
\* call of llvm.sqrt and after a call of a function of the program.
IndirectCall ==
    Inst(TRUE, NullFn, {Val("inst", "x", "float"), Val("constexpr", "fp", "fnptr")})

FunctionStmts ==
    HostStmts \cup
    { << Stmt("S0", << Inst(TRUE, FnFabs, {Val("inst", "x", "float"), FnFabs}) >>) >>,
      << Stmt("S0", << Inst(FALSE, NoFn, {Val("inst", "q", "ptr"), FnFoo}) >>) >>,
      << Stmt("S0", << IndirectCall >>) >>,
      << Stmt("S0", << Inst(TRUE, FnSqrt, {Val("inst", "x", "float"), FnSqrt}),
                       IndirectCall >>) >>,
      << Stmt("S0", << Inst(TRUE, FnFoo, {Val("inst", "x", "float"), FnFoo}),
                       IndirectCall >>) >> }

\* Regions for the kernel interface: arrays of every argument class, typed
\* parameters, statements whose operands are base pointers, parameters,
\* SCEVs, pointer and i1 values, and calls of intrinsics.
KernelCatalogues ==
    { << Array1D("A", "float", 1, 0, 1),
         Scalar("s", "value", "float", {"I1"}, TRUE, TRUE),
         Scalar("r", "value", "i32", {"I1"}, FALSE, TRUE) >>,
      << Array1D("B", "double", 0, 0, 1),
         Scalar("p", "value", "i1", {"I1"}, FALSE, TRUE) >> }

KernelStmts(arrays) ==
    { << Stmt("S0", << Inst(FALSE, NoFn, { getBasePtr(arrays[i]) : i \in DOMAIN arrays }
                                         \cup {ScevNC,
                                               Val("inst", "x", "float"),
                                               Val("inst", "q", "ptr"),
                                               Val("inst", "b", "i1")}),
                       Inst(TRUE, FnSqrt, {Val("inst", "x", "float"), FnSqrt}) >>) >>,
      << Stmt("S0", << Inst(FALSE, NoFn, {Val("inst", "y", "double")}) >>) >>,
      << Stmt("S0", << Inst(TRUE, FnFabs, {Val("inst", "x", "float"), FnFabs}) >>) >> }

KernelKernels(Scop_) ==
    { Template(g, <<2>>, r, << StmtNode(Scop_, 1), SyncNode, CopyNode(TRUE) >>, FALSE) :
        g \in { << >>, <<2, 1>> },
        r \in { {}, {1}, DOMAIN Scop_.arrays \ {1}, DOMAIN Scop_.arrays } }

\* Kernels of every grid and block dimensionality, with and without the
\* arrays of the region as arguments.
HazardKernels(Scop_) ==
    { Template(g, b, r, << StmtNode(Scop_, 1) >>, FALSE) :
        g \in { << >>, <<1>>, <<2>>, <<3, 2>> },
        b \in { << >>, <<1>>, <<4, 5, 6>> },
        r \in { {}, DOMAIN Scop_.arrays } }

AnalysisKernels(Scop_) ==
    { Template(<<2>>, <<2>>, r, << StmtNode(Scop_, 1) >>, FALSE) :
        r \in { {}, DOMAIN Scop_.arrays } }

\* Kernels whose module verifies or not, with and without arguments.
FinalizeKernels(Scop_) ==
    { Template(<<2>>, <<2>>, r, << StmtNode(Scop_, 1) >>, vf) :
        r \in { {}, DOMAIN Scop_.arrays }, vf \in BOOLEAN }

\* The device ASTs of at most MaxTreeNodes user nodes: statement instances,
\* synchronizations and copies in every order.
DeviceTrees(Scop_) ==
    LET nodes == { StmtNode(Scop_, i) : i \in DOMAIN Scop_.stmts }
                 \cup { SyncNode, CopyNode(TRUE) }
    IN  UNION { [1..n -> nodes] : n \in 1..MaxTreeNodes }

DeviceKernels(Scop_) ==
    { Template(<<2>>, <<2>>, {}, tree, FALSE) : tree \in DeviceTrees(Scop_) }

\* The kernels the scheduler may put into the AST of region Scop_.
Kernels(family, Scop_) ==
    CASE family = "host"     -> HostKernels(Scop_)
      [] family = "finalize" -> FinalizeKernels(Scop_)
      [] family = "device"   -> DeviceKernels(Scop_)
      [] family = "kernel"   -> KernelKernels(Scop_)
      [] family = "hazard"   -> HazardKernels(Scop_)
      [] family = "analysis" -> AnalysisKernels(Scop_)

(***************************************************************************)
(* Host-runtime calls                                                      *)
(***************************************************************************)
Call(name, array, kernel) ==
    [call |-> name, array |-> array, kernel |-> kernel, args |-> << >>]

CallArgs(name, array, kernel, args) ==
    [call |-> name, array |-> array, kernel |-> kernel, args |-> args]

\* The bytes allocateDeviceArrays requests and createDataTransfer copies.
TransferSize(Array) ==
    LET ArraySize == getArraySize(Array)
        Offset    == getArrayOffset(Array)
    IN  IF Offset # << >>
        THEN ArraySize - Offset[1] * getElemSizeInBytes(Array.user)
        ELSE ArraySize

\* allocateDeviceArrays that passes over the scalars of the region.
allocateDeviceArraysNoScalars(ProgArrays) ==
    LET arrays == SelectSeq(ProgArrays, LAMBDA Array : ~gpu_array_is_scalar(Array))
    IN  [ i \in DOMAIN arrays |->
            Call("polly_allocateMemoryForDevice", arrays[i].name, 0) ]

allocateDeviceArrays(ProgArrays) ==
    [ i \in DOMAIN ProgArrays |->
        Call("polly_allocateMemoryForDevice", ProgArrays[i].name, 0) ]

AllocatedDeviceArrays(ProgArrays) ==
    { [array |-> ProgArrays[i].user.name, size |-> TransferSize(ProgArrays[i])] :
        i \in DOMAIN ProgArrays }

freeDeviceArrays(allocations) ==
    LET order == SetToSeq({ a.array : a \in allocations })
    IN  [ i \in DOMAIN order |-> Call("polly_freeDeviceMemory", order[i], 0) ]

\* createDataTransfer: the copy, whose operands besides the device
\* allocation are the host pointer, here the number of elements it is moved
\* forward from the base pointer (or the alloca), and the size in bytes.
createDataTransfer(Array, Direction) ==
    LET Offset  == getArrayOffset(Array)
        HostPtr == IF Offset # << >> THEN Offset[1] ELSE 0
        Size    == TransferSize(Array)
    IN  IF Direction = "HOST_TO_DEVICE"
        THEN << CallArgs("polly_copyFromHostToDevice", Array.user.name, 0,
                         << HostPtr, Size >>) >>
        ELSE << CallArgs("polly_copyFromDeviceToHost", Array.user.name, 0,
                         << HostPtr, Size >>) >>

\* ScalarMap after createDataTransfer: the host pointer of a scalar is its
\* alloca.
createDataTransferAllocas(scalarMap, Array, fn) ==
    IF gpu_array_is_scalar(Array)
    THEN getOrCreateAlloca(scalarMap, Array.user.name, fn)
    ELSE scalarMap

\* getOrCreateManagedDeviceArray for the required arrays of a kernel: the
\* host pointers remembered in DeviceAllocations.
ManagedDeviceArrays(ProgArrays, Kernel, allocations) ==
    allocations \cup
    { [array |-> ProgArrays[i].user.name, size |-> 0] :
        i \in { j \in DOMAIN ProgArrays :
                  /\ ppcg_kernel_requires_array_argument(Kernel, j)
                  /\ \A a \in allocations : a.array # ProgArrays[j].user.name } }

(***************************************************************************)
(* PPCGCodeGeneration::runOnScop                                           *)
(***************************************************************************)
\* runOnScop returns at once: the region uses a function no kernel can call;
\* or the process does not survive the inspection of the region.
BailOut ==
    /\ pc = "start"
    /\ \E ub \in NullDerefOutcomes :
          /\ containsInvalidKernelFunction(S, ub) # "false"
          /\ pc' = IF containsInvalidKernelFunction(S, ub) = "crash"
                   THEN "crashed" ELSE "returned"
    /\ UNCHANGED <<PPCGScop, bindingVars, inputVars, Prog, KillsInfo, budget, loops, visited,
                   hostCode, BuildSuccessful, DeepestSequential, DeepestParallel,
                   DeviceAllocations, IDToValue, lastKernel, GPUModule, GPUContext, RTC>>

\* isl_schedule_sequence
isl_schedule_sequence(schedule1, schedule2) == <<"sequence", schedule1, schedule2>>

\* PPCGScop->schedule with the kills sequenced whether or not there are any.
PPCGScopScheduleAlways(schedule, Info) ==
    isl_schedule_sequence(schedule,
        <<"domain", IF Info.KillsSchedule # << >>
                    THEN Info.KillsSchedule[1] ELSE {}>>)

\* PPCGScop->schedule: the kills are sequenced after the schedule of the
\* region if there is something to kill.
PPCGScopSchedule(schedule, Info) ==
    IF Info.KillsSchedule # << >>
    THEN isl_schedule_sequence(schedule, <<"domain", Info.KillsSchedule[1]>>)
    ELSE schedule

createPPCGScop ==
    /\ pc = "start"
    /\ \E ub \in NullDerefOutcomes : containsInvalidKernelFunction(S, ub) = "false"
    /\ KillsInfo' = computeMustKillsInfo(S)
    /\ PPCGScop' = << [schedule |-> PPCGScopSchedule(S.schedule,
                                                     computeMustKillsInfo(S)),
                       tagged_must_kills |->
                           computeMustKillsInfo(S).TaggedMustKills] >>
    /\ pc' = "scop"
    /\ UNCHANGED <<bindingVars, inputVars, Prog, budget, loops, visited,
                   hostCode, BuildSuccessful, DeepestSequential, DeepestParallel,
                   DeviceAllocations, IDToValue, lastKernel, GPUModule, GPUContext, RTC>>

createPPCGProg ==
    /\ pc = "scop"
    /\ Prog' = createArrays(S)
    /\ pc' = "prog"
    /\ UNCHANGED <<PPCGScop, bindingVars, inputVars, KillsInfo, budget, loops, visited,
                   hostCode, BuildSuccessful, DeepestSequential, DeepestParallel,
                   DeviceAllocations, IDToValue, lastKernel, GPUModule, GPUContext, RTC>>

\* PPCGGenTree that takes an error of the scheduler for a permutable node.
PPCGGenTreeUnlessZero(has_permutable) == has_permutable # 0

\* Whether generateGPU leaves a GPU AST in PPCGGen->tree.
PPCGGenTree(has_permutable) == ~(has_permutable = 0 \/ has_permutable < 0)

\* generateGPU: a GPU AST is generated only if the schedule has a permutable
\* node; without one runOnScop generates nothing.
generateGPU ==
    /\ pc = "prog"
    /\ pc' = IF PPCGGenTree(S.has_permutable) THEN "tree" ELSE "returned"
    /\ UNCHANGED <<PPCGScop, bindingVars, inputVars, Prog, KillsInfo, budget, loops, visited,
                   hostCode, BuildSuccessful, DeepestSequential, DeepestParallel,
                   DeviceAllocations, IDToValue, lastKernel, GPUModule, GPUContext, RTC>>

\* NodeBuilder.addParameters: the parameters of the region are bound.
addParameters(Scop_) ==
    [ i \in DOMAIN Scop_.params |-> <<Scop_.params[i].id, Scop_.params[i].val>> ]

\* initializeAfterRTH that allocates the device arrays whatever the memory mode.
initializeAfterRTHAlwaysAllocates(managed, ProgArrays) ==
    [Code        |-> << Call("polly_initContext", "", 0) >>
                     \o allocateDeviceArrays(ProgArrays),
     Context     |-> <<"call", 1>>,
     Allocations |-> AllocatedDeviceArrays(ProgArrays)]

\* GPUNodeBuilder::initializeAfterRTH: the calls emitted, GPUContext (the
\* value of the call to polly_initContext, the first of the block) and
\* DeviceAllocations.
initializeAfterRTH(managed, ProgArrays) ==
    [Code        |-> << Call("polly_initContext", "", 0) >>
                     \o (IF ~managed THEN allocateDeviceArrays(ProgArrays)
                         ELSE << >>),
     Context     |-> <<"call", 1>>,
     Allocations |-> IF ~managed THEN AllocatedDeviceArrays(ProgArrays) ELSE {}]

\* finalize that frees the context before the device arrays.
finalizeFreesContextFirst(managed, allocations, Context) ==
    << CallArgs("polly_freeContext", "", 0, << Context >>) >>
    \o (IF ~managed THEN freeDeviceArrays(allocations) ELSE << >>)

\* GPUNodeBuilder::finalize: the calls emitted.
finalize(managed, allocations, Context) ==
    (IF ~managed THEN freeDeviceArrays(allocations) ELSE << >>)
    \o << CallArgs("polly_freeContext", "", 0, << Context >>) >>

\* RegionGuard that looks at the build only.
RegionGuardIgnoresDepth(rtc, deepestSequential, deepestParallel, buildSuccessful) ==
    IF ~buildSuccessful THEN "false" ELSE rtc

\* The guard of the region once its AST is lowered.
RegionGuard(rtc, deepestSequential, deepestParallel, buildSuccessful) ==
    LET afterDepth == IF deepestSequential > deepestParallel THEN "false" ELSE rtc
    IN  IF ~buildSuccessful THEN "false" ELSE afterDepth

\* generateCode up to NodeBuilder.initializeAfterRTH(): the parameters are
\* bound, the run-time check guards the region, and the context and the device
\* arrays are created.
generateCode ==
    /\ pc = "tree"
    /\ IDToValue' = addParameters(S)
    /\ ValueMap' = S.invariantLoads
    /\ ScalarMap' = {}
    /\ InsertPoint' = "polly.start"
    /\ RTC' = "RTC"
    /\ hostCode' = initializeAfterRTH(ManagedMemory, Prog).Code
    /\ DeviceAllocations' = initializeAfterRTH(ManagedMemory, Prog).Allocations
    /\ GPUContext' = initializeAfterRTH(ManagedMemory, Prog).Context
    /\ pc' = "ast"
    /\ UNCHANGED <<PPCGScop, inputVars, Prog, KillsInfo, budget, loops, visited,
                   BuildSuccessful, DeepestSequential, DeepestParallel, lastKernel, GPUModule>>

(***************************************************************************)
(* Lowering the GPU AST (NodeBuilder.create(Root))                         *)
(***************************************************************************)
\* IslNodeBuilder::createFor enters a host loop: its iterator is bound.  Only
\* loops that can still hold a user node are explored.
EnterFor ==
    /\ pc = "ast"
    /\ budget > 0
    /\ Len(loops) < MaxDepth
    /\ LET id == LoopIds[Len(loops) + 1]
       IN  /\ loops' = Append(loops, id)
           /\ IDToValue' = IDSet(IDToValue, id,
                                 [kind |-> "iv", name |-> <<id>>, ty |-> "i64"])
    /\ UNCHANGED <<PPCGScop, bindingVars, pc, inputVars, Prog, KillsInfo, budget, visited, hostCode,
                   BuildSuccessful, DeepestSequential, DeepestParallel,
                   DeviceAllocations, lastKernel, GPUModule, GPUContext, RTC>>

\* IslNodeBuilder::createFor leaves the loop: the iterator is unbound.
ExitFor ==
    /\ pc = "ast"
    /\ loops # << >>
    /\ loops' = SubSeq(loops, 1, Len(loops) - 1)
    /\ IDToValue' = IDRemove(IDToValue, loops[Len(loops)])
    /\ UNCHANGED <<PPCGScop, bindingVars, pc, inputVars, Prog, KillsInfo, budget, visited, hostCode,
                   BuildSuccessful, DeepestSequential, DeepestParallel,
                   DeviceAllocations, lastKernel, GPUModule, GPUContext, RTC>>

KernelNode == [name |-> <<"kernel", "">>, type |-> "none", stmt |-> 0,
               read |-> FALSE, array |-> 0]

\* createKernel for the kernel template T found in the node's annotation; ub
\* is what an llvm_unreachable that is reached does.
KernelLaunchCallsFreeFirst(Kernel, ASMString, Name, GPUKernel) ==
    << CallArgs("polly_getKernel", "", Kernel.id, << ASMString, Name >>),
       CallArgs("polly_freeKernel", "", Kernel.id, << GPUKernel >>),
       CallArgs("polly_launchKernel", "", Kernel.id,
                << GPUKernel >> \o getGridSizes(Kernel) \o getBlockSizes(Kernel)
                \o << <<"Parameters", Kernel.id>> >>) >>

\* The three runtime calls that end createKernel.  GPUKernel is the value
\* returned by the first of them and handed to the other two.
KernelLaunchCalls(Kernel, ASMString, Name, GPUKernel) ==
    << CallArgs("polly_getKernel", "", Kernel.id, << ASMString, Name >>),
       CallArgs("polly_launchKernel", "", Kernel.id,
                << GPUKernel >> \o getGridSizes(Kernel) \o getBlockSizes(Kernel)
                \o << <<"Parameters", Kernel.id>> >>),
       CallArgs("polly_freeKernel", "", Kernel.id, << GPUKernel >>) >>

createKernel(T, ub) ==
    LET Kernel == [id          |-> Count(hostCode, {"polly_getKernel"}),
                   n_grid      |-> T.n_grid,
                   grid_size   |-> T.grid_size,
                   n_block     |-> T.n_block,
                   block_dim   |-> T.block_dim,
                   requires    |-> T.requires,
                   space_set   |-> loops,
                   space_param |-> [ i \in DOMAIN S.params |-> S.params[i].id ],
                   tree        |-> T.tree,
                   verifyFails |-> T.verifyFails]
        Refs     == getReferencesInKernel(S, Kernel, IDToValue)
        HostIDs  == IDToValue
        FN       == createKernelFunctionDecl(Prog, Kernel, Refs.Values, IDToValue)
        InKernel == KernelIDToValue(Kernel, IDToValue)
        Body     == createTree(Kernel.tree)
        AfterArg == finalizeKernelArguments(Prog, Kernel, BuildSuccessful)
        Final    == finalizeKernelFunction(Kernel, AfterArg, Arch,
                                           FailOnVerifyModuleFailure, ub, GPUTarget)
        Params   == createLaunchParameters(Prog, Kernel, Len(FN), Refs.Values, HostIDs)
        HostInsertPoint == InsertPoint
        HostValueMap    == ValueMap
        HostScalarMap   == ScalarMap
        Name     == getKernelFuncName(Kernel.id)
        GetPtrs  == LaunchParameterCalls(Prog, Kernel, ManagedMemory, DeviceAllocations)
        DevArrays == LaunchDevArrays(Prog, Kernel, ManagedMemory, Len(hostCode))
        GPUKernel == <<"call", Len(hostCode) + Len(GetPtrs) + 1>>
        Lowered  == [Kernel           |-> Kernel,
                     HostIDs          |-> HostIDs,
                     KernelIDs        |-> InKernel,
                     HostValueMap     |-> HostValueMap,
                     KernelValueMap   |-> KernelValueMap(ValueMap, Kernel, Refs.Values,
                                                         Refs.Functions, IDToValue),
                     HostScalarMap    |-> HostScalarMap,
                     KernelScalarMap  |-> KernelScalarMap(Prog, Kernel, Name),
                     Name             |-> Name,
                     DevArrays        |-> DevArrays,
                     Pointers         |-> LaunchPointers(Prog, Kernel, ManagedMemory),
                     SubtreeValues    |-> Refs.Values,
                     SubtreeFunctions |-> Refs.Functions,
                     RawSubtreeValues |-> Refs.Raw,
                     FN               |-> FN,
                     Is64Bit          |-> is64Bit(Arch),
                     Body             |-> Body,
                     Code             |-> KernelCode(Prog, Kernel),
                     BuildBefore      |-> BuildSuccessful,
                     BuildAfterArgs   |-> AfterArg,
                     ASMString        |-> Final.ASMString,
                     Steps            |-> Final.Steps,
                     Fatal            |-> Final.Fatal,
                     GridSizes        |-> getGridSizes(Kernel),
                     BlockSizes       |-> getBlockSizes(Kernel),
                     Parameters       |-> Params]
        Deeper   == Max2(IF Kernel.n_grid > 1 THEN DeepestParallel
                         ELSE DeepestSequential, Len(Kernel.space_set))
    IN  /\ DeepestParallel' = IF Kernel.n_grid > 1 THEN Deeper ELSE DeepestParallel
        /\ DeepestSequential' = IF Kernel.n_grid > 1 THEN DeepestSequential ELSE Deeper
        /\ BuildSuccessful' = Final.BuildSuccessful
        /\ lastKernel' = << Lowered >>
        /\ GPUModule' = IF Final.Released THEN "" ELSE Name
        /\ IF Final.Fatal
           THEN \* the process is gone before anything is emitted on the host
                /\ pc' = "aborted"
                /\ UNCHANGED <<IDToValue, DeviceAllocations, hostCode, budget, visited,
                               bindingVars>>
           ELSE /\ pc' = pc
                /\ IDToValue' = HostIDs
                /\ DeviceAllocations' =
                      IF ManagedMemory
                      THEN ManagedDeviceArrays(Prog, Kernel, DeviceAllocations)
                      ELSE DeviceAllocations
                /\ ValueMap' = HostValueMap
                /\ InsertPoint' = HostInsertPoint
                /\ ScalarMap' = createLaunchParametersAllocas(
                                    HostScalarMap, Prog, Kernel, ManagedMemory,
                                    DeviceAllocations, HostInsertPoint)
                /\ hostCode' = hostCode
                       \o GetPtrs
                       \o KernelLaunchCalls(Kernel, Final.ASMString, Name, GPUKernel)
                /\ budget' = budget - 1
                /\ visited' = Append(visited, KernelNode)

createUserKernel ==
    /\ pc = "ast"
    /\ budget > 0
    /\ createUserBranch(KernelNode) = "kernel"
    /\ \E T \in Kernels(inputs, S), ub \in UnreachableOutcomes : createKernel(T, ub)
    /\ UNCHANGED <<PPCGScop, inputVars, Prog, KillsInfo, loops, RTC, GPUContext>>

TransferNode(prefix, i) ==
    [name |-> <<prefix, Prog[i].name>>, type |-> "none", stmt |-> 0,
     read |-> FALSE, array |-> i]

createUserToDevice ==
    /\ pc = "ast"
    /\ budget > 0
    /\ \E i \in DOMAIN Prog :
        LET Node == TransferNode("to_device", i)
        IN  /\ createUserBranch(Node) = "to_device"
            /\ hostCode' = hostCode \o
                   (IF ~ManagedMemory
                    THEN createDataTransfer(Prog[Node.array], "HOST_TO_DEVICE")
                    ELSE << >>)
            /\ ScalarMap' = IF ~ManagedMemory
                            THEN createDataTransferAllocas(ScalarMap, Prog[Node.array],
                                                           InsertPoint)
                            ELSE ScalarMap
            /\ visited' = Append(visited, Node)
    /\ budget' = budget - 1
    /\ UNCHANGED <<PPCGScop, ValueMap, InsertPoint, pc, inputVars, Prog, KillsInfo, loops, BuildSuccessful,
                   DeepestSequential, DeepestParallel, DeviceAllocations,
                   IDToValue, lastKernel, GPUModule, GPUContext, RTC>>

createUserFromDevice ==
    /\ pc = "ast"
    /\ budget > 0
    /\ \E i \in DOMAIN Prog :
        LET Node == TransferNode("from_device", i)
        IN  /\ createUserBranch(Node) = "from_device"
            /\ hostCode' = hostCode \o
                   (IF ~ManagedMemory
                    THEN createDataTransfer(Prog[Node.array], "DEVICE_TO_HOST")
                    ELSE << Call("polly_synchronizeDevice", "", 0) >>)
            /\ ScalarMap' = IF ~ManagedMemory
                            THEN createDataTransferAllocas(ScalarMap, Prog[Node.array],
                                                           InsertPoint)
                            ELSE ScalarMap
            /\ visited' = Append(visited, Node)
    /\ budget' = budget - 1
    /\ UNCHANGED <<PPCGScop, ValueMap, InsertPoint, pc, inputVars, Prog, KillsInfo, loops, BuildSuccessful,
                   DeepestSequential, DeepestParallel, DeviceAllocations,
                   IDToValue, lastKernel, GPUModule, GPUContext, RTC>>

\* A user node of the host AST that is neither a kernel nor a transfer: a
\* statement instance, a copy, a synchronization or a node of no known type.
HostStmtNodes ==
    { [name |-> <<"Stmt", S.stmts[i].name>>, type |-> "domain", stmt |-> i,
       read |-> FALSE, array |-> 0] : i \in DOMAIN S.stmts }
    \cup { [name |-> <<"kernel", "0">>, type |-> "none", stmt |-> 0,
            read |-> FALSE, array |-> 0] }

createUserStmt ==
    /\ pc = "ast"
    /\ budget > 0
    /\ \E Node \in HostStmtNodes :
        /\ createUserBranch(Node) \in {"domain", "copy", "sync", "none"}
        /\ hostCode' = hostCode \o
               [ i \in DOMAIN createUserInKernel(Node) |->
                   Call(createUserInKernel(Node)[i].op, "", 0) ]
        /\ visited' = Append(visited, Node)
    /\ budget' = budget - 1
    /\ UNCHANGED <<PPCGScop, bindingVars, pc, inputVars, Prog, KillsInfo, loops, BuildSuccessful,
                   DeepestSequential, DeepestParallel, DeviceAllocations,
                   IDToValue, lastKernel, GPUModule, GPUContext, RTC>>

\* NodeBuilder.finalize() and the end of generateCode: the device arrays and
\* the context are freed and the guard of the region is settled.
generateCodeReturn ==
    /\ pc = "ast"
    /\ loops = << >>
    /\ hostCode' = hostCode \o finalize(ManagedMemory, DeviceAllocations, GPUContext)
    /\ RTC' = RegionGuard(RTC, DeepestSequential, DeepestParallel, BuildSuccessful)
    /\ pc' = "skipped"
    /\ UNCHANGED <<PPCGScop, bindingVars, inputVars, Prog, KillsInfo, budget, loops, visited,
                   BuildSuccessful, DeepestSequential, DeepestParallel,
                   DeviceAllocations, IDToValue, lastKernel, GPUModule, GPUContext>>

Next ==
    \/ BailOut
    \/ createPPCGScop
    \/ createPPCGProg
    \/ generateGPU
    \/ generateCode
    \/ EnterFor
    \/ ExitFor
    \/ createUserKernel
    \/ createUserToDevice
    \/ createUserFromDevice
    \/ createUserStmt
    \/ generateCodeReturn

Init ==
    /\ InitGenerator
    /\ GPUTarget = "found"
    /\ ManagedMemory \in BOOLEAN
    /\ FailOnVerifyModuleFailure = FALSE
    /\ Arch = "NVPTX64"
    /\ S \in { Scop(a, Param("i64"), st, hp) :
                 a \in HostCatalogues, st \in HostStmts, hp \in {-1, 0, 1} }
    /\ inputs = "host"
    /\ budget = MaxNodes

Spec == Init /\ [][Next]_vars

\* One user node, with the region, the target and the kernel varied.
InitKernel ==
    /\ InitGenerator
    /\ GPUTarget = "found"
    /\ ManagedMemory = FALSE
    /\ FailOnVerifyModuleFailure = FALSE
    /\ Arch \in {"NVPTX64", "SPIR32"}
    /\ S \in UNION { { Scop(a, Param(pt), st, 1) :
                         pt \in {"i64", "i32"}, st \in KernelStmts(a) }
                       \cup { Scop(a, Param("i64"), st, 0) : st \in KernelStmts(a) } :
                     a \in KernelCatalogues }
    /\ inputs = "kernel"
    /\ budget = MaxInputNodes

SpecKernel == InitKernel /\ [][Next]_vars

\* Two user nodes, with the grid and the block of the kernels varied.
InitHazard ==
    /\ InitGenerator
    /\ GPUTarget = "found"
    /\ ManagedMemory = FALSE
    /\ FailOnVerifyModuleFailure = FALSE
    /\ Arch = "NVPTX64"
    /\ S \in { Scop(a, Param("i64"), st, hp) :
                 a \in KernelCatalogues, st \in HostStmts, hp \in {0, 1} }
    /\ inputs = "hazard"
    /\ budget = MaxHazardNodes

SpecHazard == InitHazard /\ [][Next]_vars

\* One user node, with the accesses and the scalars of the region varied.
AnalysisCatalogues ==
    { << Array1D("A", "float", k, lo, hi),
         Scalar("v", kind, "float", users, TRUE, TRUE),
         Scalar("t", "value", "i32", {"I2"}, FALSE, TRUE) >> :
        k \in 0..MaxK, lo \in 0..MaxIter, hi \in 0..MaxIter,
        kind \in {"value", "phi", "exitphi"},
        users \in { {}, {"I1"}, {"I1", "O1"}, {"O1"} } }

\* Regions with a one-dimensional array and a scalar, each accessed or not,
\* and regions with a two-dimensional array of n1 columns of which the rows
\* lo..hi are accessed, in the columns cols.
ExtentCatalogues ==
    { << SAI("A", "array", 1, "float", <<0>>, {}, TRUE, acc, << >>),
         Scalar("v", "value", "float", {"I1", "O1"}, TRUE, isAccessed) >> :
        acc \in { {}, { <<1>> } }, isAccessed \in BOOLEAN }
    \cup UNION { { << SAI("A", "array", 2, "float", <<0, n1>>, {}, TRUE,
                         { <<r, c>> : r \in lo..hi, c \in cols }, << >>) >> :
                     n1 \in {2, 4}, hi \in lo..MaxIter, cols \in { {0, 1}, {1} } } :
                  lo \in 0..MaxIter }

InitAnalysis ==
    /\ InitGenerator
    /\ GPUTarget = "found"
    /\ ManagedMemory = FALSE
    /\ FailOnVerifyModuleFailure = FALSE
    /\ Arch = "NVPTX64"
    /\ S \in { Scop(a, Param("i64"), st, 1) :
                 a \in { c \in AnalysisCatalogues :
                           c[1].pattern[2] <= c[1].pattern[3] },
                 st \in HostStmts }
            \cup { Scop(a, Param("i64"), st, 0) :
                     a \in HostCatalogues, st \in HostStmts }
            \cup { Scop(a, Param("i64"), st, 1) :
                     a \in ExtentCatalogues, st \in HostStmts }
    /\ inputs = "analysis"
    /\ budget = MaxInputNodes

SpecAnalysis == InitAnalysis /\ [][Next]_vars

\* Two user nodes, with the target, the verification of the kernel modules
\* and the option to fail on a verification failure varied.
InitFinalize ==
    /\ InitGenerator
    /\ GPUTarget \in TargetOutcomes
    /\ ManagedMemory = FALSE
    /\ FailOnVerifyModuleFailure \in BOOLEAN
    /\ Arch \in {"NVPTX64", "SPIR32", "SPIR64"}
    /\ S \in { Scop(a, Param("i64"), st, hp) :
                 a \in HostCatalogues, st \in HostStmts, hp \in {0, 1} }
    /\ inputs = "finalize"
    /\ budget = MaxFinalizeNodes

SpecFinalize == InitFinalize /\ [][Next]_vars

\* One user node of the host AST, with the device AST of the kernels varied,
\* for regions of two statements.
DeviceStmts ==
    { << Stmt("S0", << Inst(FALSE, NoFn, {Val("baseptr", "A", "ptr"),
                                          Val("inst", "x", "float")}) >>),
         Stmt("S1", << Inst(TRUE, FnSqrt, {Val("inst", "y", "float"), FnSqrt}) >>) >>,
      << Stmt("S0", << Inst(TRUE, FnFoo, {Val("inst", "x", "float"), FnFoo}) >>),
         Stmt("S1", << Inst(FALSE, NoFn, {Val("inst", "y", "float")}) >>) >> }

InitDevice ==
    /\ InitGenerator
    /\ GPUTarget = "found"
    /\ ManagedMemory = FALSE
    /\ FailOnVerifyModuleFailure = FALSE
    /\ Arch \in {"NVPTX64", "SPIR64"}
    /\ S \in { Scop(<< Array1D("A", "float", 0, 0, 1) >>, Param("i64"), st, 1) :
                 st \in DeviceStmts }
    /\ inputs = "device"
    /\ budget = MaxInputNodes

SpecDevice == InitDevice /\ [][Next]_vars

\* Two user nodes, with the memory mode, the scalars of the region and the
\* arguments of the kernels varied.
InitBindings ==
    /\ InitGenerator
    /\ GPUTarget = "found"
    /\ ManagedMemory \in BOOLEAN
    /\ FailOnVerifyModuleFailure = FALSE
    /\ Arch = "NVPTX64"
    /\ S \in UNION { { Scop(a, Param("i64"), st, hp) :
                         st \in KernelStmts(a), hp \in {0, 1} } :
                     a \in KernelCatalogues }
    /\ inputs = "kernel"
    /\ budget = MaxBindingNodes

SpecBindings == InitBindings /\ [][Next]_vars

\* One user node, with the uses of functions in the statements varied.
InitFunctions ==
    /\ InitGenerator
    /\ GPUTarget = "found"
    /\ ManagedMemory \in BOOLEAN
    /\ FailOnVerifyModuleFailure = FALSE
    /\ Arch = "NVPTX64"
    /\ S \in { Scop(a, Param("i64"), st, hp) :
                 a \in HostCatalogues, st \in FunctionStmts, hp \in {0, 1} }
    /\ inputs = "host"
    /\ budget = MaxInputNodes

SpecFunctions == InitFunctions /\ [][Next]_vars

(***************************************************************************)
(* Properties of the emitted host code                                     *)
(***************************************************************************)
\* The nodes of the visited AST whose expression id starts with prefix.
NodesWithPrefix(prefix) == { i \in DOMAIN visited : visited[i].name[1] = prefix }

\* The positions in hostCode of the calls named in calls.
CallsAt(calls) == { i \in DOMAIN hostCode : hostCode[i].call \in calls }

MemoryCalls == {"polly_allocateMemoryForDevice", "polly_freeDeviceMemory",
                "polly_copyFromHostToDevice", "polly_copyFromDeviceToHost"}

CopyAndLaunchCalls == {"polly_copyFromHostToDevice", "polly_copyFromDeviceToHost",
                       "polly_launchKernel"}

\* C1: with managed memory the host code of a region never holds a call
\* allocating or freeing device memory or copying in either direction, and
\* holds exactly one polly_synchronizeDevice call per from_device node
\* visited; to_device nodes emit nothing.
C1_ManagedMemoryEmitsOnlySynchronize ==
    ManagedMemory =>
        /\ CallsAt(MemoryCalls) = {}
        /\ Cardinality(CallsAt({"polly_synchronizeDevice"}))
              = Cardinality(NodesWithPrefix("from_device"))

\* A managed region lowered to the end with a kernel, a to_device node and two
\* from_device nodes.
C1_Witness ==
    /\ ManagedMemory
    /\ pc = "skipped"
    /\ Cardinality(NodesWithPrefix("from_device")) = 2
    /\ Cardinality(CallsAt({"polly_synchronizeDevice"})) = 2
    /\ \/ NodesWithPrefix("to_device") # {}
       \/ NodesWithPrefix("kernel") # {}
    /\ Prog # << >>

\* The calls of hostCode that allocate, free, copy or launch, in order.
RECURSIVE MemoryAndLaunchCalls(_)
MemoryAndLaunchCalls(code) ==
    IF code = << >> THEN << >>
    ELSE (IF Head(code).call \in MemoryCalls \cup {"polly_launchKernel"}
          THEN << Head(code).call >> ELSE << >>)
         \o MemoryAndLaunchCalls(Tail(code))

\* C2: without managed memory, once the region is initialized the host code
\* holds exactly one allocation per array of the region, each before every
\* copy and launch; once the region is finalized it holds exactly one free per
\* allocation, each after every copy and launch, and none before; and a
\* region with one array lowered from the nodes to_device, kernel, from_device
\* emits allocate, copy to device, launch, copy from device, free.
C2_AllocateBeforeFreeAfter ==
    (~ManagedMemory /\ pc \in {"ast", "skipped"}) =>
        /\ \A a \in DOMAIN S.arrays :
              Cardinality({ i \in CallsAt({"polly_allocateMemoryForDevice"}) :
                             hostCode[i].array = S.arrays[a].name }) = 1
        /\ Cardinality(CallsAt({"polly_allocateMemoryForDevice"})) = Len(S.arrays)
        /\ \A i \in CallsAt({"polly_allocateMemoryForDevice"}) :
              \A j \in CallsAt(CopyAndLaunchCalls) : i < j
        /\ pc = "ast" => CallsAt({"polly_freeDeviceMemory"}) = {}
        /\ pc = "skipped" =>
              /\ \A a \in DOMAIN S.arrays :
                    Cardinality({ i \in CallsAt({"polly_freeDeviceMemory"}) :
                                   hostCode[i].array = S.arrays[a].name }) = 1
              /\ Cardinality(CallsAt({"polly_freeDeviceMemory"}))
                    = Cardinality(CallsAt({"polly_allocateMemoryForDevice"}))
              /\ \A i \in CallsAt({"polly_freeDeviceMemory"}) :
                    \A j \in CallsAt(CopyAndLaunchCalls) : j < i
              /\ ( /\ Len(S.arrays) = 1
                   /\ Len(visited) = 3
                   /\ visited[1].name[1] = "to_device"
                   /\ visited[2].name = <<"kernel", "">>
                   /\ visited[3].name[1] = "from_device" )
                  => MemoryAndLaunchCalls(hostCode)
                       = << "polly_allocateMemoryForDevice",
                            "polly_copyFromHostToDevice",
                            "polly_launchKernel",
                            "polly_copyFromDeviceToHost",
                            "polly_freeDeviceMemory" >>

\* The one-array region lowered from to_device, kernel, from_device, finalized.
C2_Witness ==
    /\ ~ManagedMemory
    /\ pc = "skipped"
    /\ Len(S.arrays) = 1
    /\ Len(visited) = 3
    /\ visited[1].name[1] = "to_device"
    /\ visited[2].name = <<"kernel", "">>
    /\ visited[3].name[1] = "from_device"
    /\ Len(MemoryAndLaunchCalls(hostCode)) = 5

(***************************************************************************)
(* Properties of the kernel interface                                      *)
(***************************************************************************)
\* The values a kernel receives as explicit arguments: the base pointers of
\* the region's arrays, the values of the region's parameters and the values
\* of the host iterators around the kernel.
ExplicitArguments(K) ==
    { getBasePtr(S.arrays[i]) : i \in DOMAIN S.arrays }
    \cup { IDLookup(K.HostIDs, S.params[i].id) : i \in DOMAIN S.params }
    \cup { IDLookup(K.HostIDs, K.Kernel.space_set[i]) : i \in DOMAIN K.Kernel.space_set }

\* C3: the launch parameter block of a kernel holds one value slot per formal
\* argument of the kernel function, then one size word per value slot, and
\* the size word of slot i is the size in bytes of the type of formal
\* argument i in the kernel module.
C3_SizeWordsMatchFormalTypes ==
    lastKernel # << >> =>
        LET K == lastKernel[1]
            n == Len(K.FN)
        IN  /\ Len(K.Parameters) = 2 * n
            /\ \A i \in 1..n :
                  /\ K.Parameters[i].slot = "value"
                  /\ K.Parameters[n + i].slot = "size"
                  /\ K.Parameters[n + i].size
                        = TypeSizeInBytes(K.FN[i].ty, K.Is64Bit)

\* On NVPTX64 a kernel takes the float array A as its first argument, a device
\* pointer of 8 bytes, and the size word written for it is 4.
C3_Witness ==
    /\ lastKernel # << >>
    /\ Arch = "NVPTX64"
    /\ Len(lastKernel[1].FN) >= 1
    /\ lastKernel[1].FN[1] = [ent |-> <<"array", "A">>, ty |-> "ptr"]
    /\ S.arrays[1].elemTy = "float"
    /\ TypeSizeInBytes(lastKernel[1].FN[1].ty, lastKernel[1].Is64Bit) = 8
    /\ lastKernel[1].Parameters[Len(lastKernel[1].FN) + 1].size = 4

\* The entities a kernel is handed, in the order of the kernel interface: the
\* required arrays in region order, the host iterators, the parameters, the
\* closure values.
InterfaceOrder(K) ==
    LET req == SelectSeq([ i \in DOMAIN S.arrays |-> i ],
                         LAMBDA i : i \in K.Kernel.requires)
    IN  [ j \in DOMAIN req |-> <<"array", S.arrays[req[j]].name>> ]
        \o [ j \in DOMAIN K.Kernel.space_set |-> <<"id", K.Kernel.space_set[j]>> ]
        \o [ j \in DOMAIN S.params |-> <<"id", S.params[j].id>> ]
        \o [ j \in DOMAIN K.SubtreeValues |-> <<"value", K.SubtreeValues[j].name[1]>> ]

\* C4: value slot i of the launch parameter block and formal argument i of
\* the kernel function stand for the same entity, and both follow the order
\* required arrays, host iterators, parameters, closure values.
C4_SlotOrderIsFormalOrder ==
    lastKernel # << >> =>
        LET K == lastKernel[1]
            n == Len(K.FN)
        IN  /\ n = Len(InterfaceOrder(K))
            /\ Len(K.Parameters) >= n
            /\ \A i \in 1..n :
                  /\ K.FN[i].ent = InterfaceOrder(K)[i]
                  /\ K.Parameters[i].ent = K.FN[i].ent

\* A kernel inside a host loop that requires some array but not the first one
\* of the region, and has several closure values.
C4_Witness ==
    /\ lastKernel # << >>
    /\ lastKernel[1].Kernel.requires # {}
    /\ 1 \notin lastKernel[1].Kernel.requires
    /\ lastKernel[1].Kernel.space_set # << >>
    /\ lastKernel[1].Kernel.space_param # << >>
    /\ Len(lastKernel[1].SubtreeValues) >= 2

\* C5: neither set getReferencesInKernel returns holds the base pointer of an
\* array of the region, the value of a parameter or the value of a host
\* iterator of the kernel's space.
C5_ClosureDisjointFromExplicitArguments ==
    lastKernel # << >> =>
        LET K == lastKernel[1]
        IN  /\ Range(K.SubtreeValues) \cap ExplicitArguments(K) = {}
            /\ Range(K.SubtreeFunctions) \cap ExplicitArguments(K) = {}

\* A kernel inside a host loop whose statement uses base pointers and a SCEV
\* over the parameter and the iterator, and whose closure is not empty.
C5_Witness ==
    /\ lastKernel # << >>
    /\ lastKernel[1].Kernel.space_set # << >>
    /\ lastKernel[1].SubtreeValues # << >>
    /\ \E i \in DOMAIN S.arrays : getBasePtr(S.arrays[i]) \in StmtOperands(S.stmts[1])
    /\ ScevNC \in StmtOperands(S.stmts[1])
    /\ Cardinality(ExplicitArguments(lastKernel[1])) >= 4

\* C6: the values and the functions getReferencesInKernel returns are
\* disjoint, together they are exactly the collected references that are no
\* base pointer, parameter or iterator, and every function is an llvm.sqrt
\* intrinsic.
C6_ValuesAndFunctionsPartitionClosure ==
    lastKernel # << >> =>
        LET K         == lastKernel[1]
            remaining == Range(CollectedSubtreeValues(S, K.Kernel, K.HostIDs))
                           \ ExplicitArguments(K)
        IN  /\ Range(K.SubtreeValues) \cap Range(K.SubtreeFunctions) = {}
            /\ Range(K.SubtreeValues) \cup Range(K.SubtreeFunctions) = remaining
            /\ \A F \in Range(K.SubtreeFunctions) :
                  /\ F.kind = "fn"
                  /\ Len(F.name) >= 2
                  /\ F.name[1] = "llvm"
                  /\ F.name[2] = "sqrt"

\* A kernel whose statement calls llvm.sqrt and uses plain values.
C6_Witness ==
    /\ lastKernel # << >>
    /\ lastKernel[1].SubtreeFunctions = << FnSqrt >>
    /\ Len(lastKernel[1].SubtreeValues) >= 2

(***************************************************************************)
(* Properties of the build-success flag                                    *)
(***************************************************************************)
\* Whether kernel K has a written scalar of the region among its arguments.
StoresScalarBack(K) ==
    \E i \in K.Kernel.requires : S.arrays[i].n_index = 0 /\ S.arrays[i].written

C10_FailedBuildDisablesRegion ==
    /\ [](pc = "skipped" /\ ~BuildSuccessful => RTC = "false")
    /\ [][~BuildSuccessful => ~BuildSuccessful']_vars

\* A lowered region whose last kernel is parallel and was built without a
\* failure after an earlier kernel had failed.
C10_Witness ==
    /\ pc = "skipped"
    /\ ~BuildSuccessful
    /\ RTC = "false"
    /\ DeepestSequential <= DeepestParallel
    /\ lastKernel # << >>
    /\ ~lastKernel[1].BuildBefore
    /\ ~lastKernel[1].Kernel.verifyFails
    /\ ~StoresScalarBack(lastKernel[1])
    /\ lastKernel[1].ASMString # ""

(***************************************************************************)
(* Properties of the analyses                                              *)
(***************************************************************************)
Analysed == pc \in {"scop", "prog", "tree", "ast", "skipped"}

\* The arrays of the region computeMustKillsInfo is to kill.
ArraysToKill ==
    { i \in DOMAIN S.arrays :
        \/ S.arrays[i].kind = "phi"
        \/ S.arrays[i].kind = "value" /\ S.arrays[i].users \subseteq S.region }

\* C8: the tagged must-kills hold exactly one entry for every array that is
\* of phi kind, or of value kind with every user inside the region, and no
\* entry for any other array.
C8_KillsPhisAndContainedValues ==
    Analysed =>
        /\ \A i \in DOMAIN S.arrays :
              Cardinality({ k \in KillsInfo.TaggedMustKills : k.mem = S.arrays[i].name })
                = IF i \in ArraysToKill THEN 1 ELSE 0
        /\ Cardinality(KillsInfo.TaggedMustKills) = Cardinality(ArraysToKill)

\* A region with a phi used outside the region, which is killed, next to a
\* contained value and an array.
C8_Witness ==
    /\ pc = "scop"
    /\ \E i \in DOMAIN S.arrays :
          /\ S.arrays[i].kind = "phi"
          /\ "O1" \in S.arrays[i].users
          /\ \E k \in KillsInfo.TaggedMustKills : k.mem = S.arrays[i].name
    /\ Cardinality(KillsInfo.TaggedMustKills) = 2
    /\ Len(S.arrays) = 3

\* Whether array i of the region is one-dimensional and accessed only as
\* A[i + k], lo <= i <= hi.
AccessedByPattern(i) == S.arrays[i].n_index = 1 /\ S.arrays[i].pattern # << >>

C11_VerifyFailureAbortsOrFallsBack ==
    (lastKernel # << >> /\ lastKernel[1].Kernel.verifyFails) =>
        IF FailOnVerifyModuleFailure
        THEN pc = "aborted" /\ lastKernel[1].Fatal
        ELSE /\ pc \in {"ast", "skipped"}
             /\ ~lastKernel[1].Fatal
             /\ ~BuildSuccessful
             /\ lastKernel[1].ASMString = ""
             /\ lastKernel[1].Steps = << "verifyModule" >>

\* With the option set, a kernel whose module fails verification is handed to
\* polly_getKernel with an empty text and the region is lowered to its end.
C11_Witness ==
    /\ FailOnVerifyModuleFailure
    /\ lastKernel # << >>
    /\ lastKernel[1].Kernel.verifyFails
    /\ ~lastKernel[1].Fatal
    /\ lastKernel[1].ASMString = ""
    /\ pc = "skipped"
    /\ hostCode[Len(hostCode) - 1 - Len(finalize(ManagedMemory, DeviceAllocations, GPUContext))].call
          = "polly_launchKernel"

\* The position of step in the steps of the finalizer, 0 if it was not taken.
StepAt(steps, step) ==
    IF step \in Range(steps)
    THEN CHOOSE i \in DOMAIN steps : steps[i] = step
    ELSE 0

\* The step of the finalizer that produces the kernel text.
TextStep(arch) ==
    IF arch = "NVPTX64" THEN "createKernelASM" ELSE "createKernelSPIR"

UsesFunctionOtherwise(I) ==
    /\ \E V \in I.operands : V.ty = "fnptr"
    /\ ~( /\ I.isCall
          /\ I.callee.kind = "fn"
          /\ I.callee.name[1] = "llvm"
          /\ Len(I.callee.name) >= 2
          /\ I.callee.name[2] = "sqrt" )

RegionUsesFunctionOtherwise ==
    \E i \in DOMAIN S.stmts : \E j \in DOMAIN S.stmts[i].insts :
        UsesFunctionOtherwise(S.stmts[i].insts[j])

\* The nodes of a device AST that createUser lowers to kernel code.
LoweredNodes(tree) ==
    SelectSeq(tree, LAMBDA N : N.type \in {"domain", "copy", "sync"})

\* C14: the kernel code of the kernel lowered last holds one entry per node
\* of its device AST, in the order of the nodes: a barrier at the place of
\* every sync node and nowhere else, the statement instance at the place of
\* every statement node and a copy at the place of every copy node.
C14_BarrierPerSyncNodeInOrder ==
    lastKernel # << >> =>
        LET nodes == LoweredNodes(lastKernel[1].Kernel.tree)
            Body  == lastKernel[1].Body
        IN  /\ Len(Body) = Len(nodes)
            /\ \A i \in DOMAIN nodes :
                  /\ nodes[i].type = "sync" <=> Body[i].op = "barrier0"
                  /\ nodes[i].type = "domain" <=>
                        Body[i] = [op |-> "stmt", stmt |-> nodes[i].stmt]
                  /\ nodes[i].type = "copy" <=>
                        Body[i].op \in {"shared.read", "shared.write"}

\* A device AST with a sync node between the instances of two statements and
\* another one after them.
C14_Witness ==
    /\ lastKernel # << >>
    /\ Len(lastKernel[1].Kernel.tree) = 3
    /\ lastKernel[1].Kernel.tree[1].type = "sync"
    /\ lastKernel[1].Kernel.tree[2].type = "domain"
    /\ lastKernel[1].Kernel.tree[3].type = "sync"
    /\ lastKernel[1].Body = << [op |-> "barrier0", stmt |-> 0],
                                [op |-> "stmt", stmt |-> 2],
                                [op |-> "barrier0", stmt |-> 0] >>

\* C13: if has_any_permutable_node returns 0 or a negative value, no GPU AST
\* is lowered: no kernel and no host-runtime call is generated, the guard of
\* the region is not touched and the region is not marked as to be skipped.
C13_NoPermutableNodeGeneratesNothing ==
    (S.has_permutable = 0 \/ S.has_permutable < 0) =>
        /\ pc \in {"start", "scop", "prog", "returned"}
        /\ hostCode = << >>
        /\ lastKernel = << >>
        /\ visited = << >>
        /\ IDToValue = << >>
        /\ RTC = "true"

\* The scheduler reported an error for a region that was analysed, and
\* runOnScop has returned.
C13_Witness ==
    /\ S.has_permutable = -1
    /\ pc = "returned"
    /\ Prog # << >>
    /\ hostCode = << >>

\* C12: if an instruction of a statement of the region uses a function other
\* than by directly calling an llvm.sqrt intrinsic, runOnScop returns before
\* the schedule is computed: nothing is analysed, no host-runtime call and no
\* kernel is generated and the region is not marked as to be skipped.
C12_InvalidFunctionUseLeavesRegionAlone ==
    RegionUsesFunctionOtherwise =>
        /\ pc \in {"start", "returned"}
        /\ Prog = << >>
        /\ KillsInfo = [KillsSchedule |-> << >>, TaggedMustKills |-> {}]
        /\ hostCode = << >>
        /\ lastKernel = << >>
        /\ visited = << >>

\* The only use of a function in the region is a call that is not a direct
\* call of a function, and the process does not survive its inspection.
C12_Witness ==
    /\ pc = "crashed"
    /\ RegionUsesFunctionOtherwise
    /\ S.stmts[1].insts = << IndirectCall >>

(***************************************************************************)
(* Properties of the host code around a kernel                             *)
(***************************************************************************)
\* A step that lowers a Kernel node of the host AST.
KernelStep == pc = "ast" /\ visited' = Append(visited, KernelNode)

\* C15 (as stated): lowering a Kernel node leaves IDToValue, ValueMap and
\* ScalarMap as they were before the node, and the insertion point where it
\* was.
C15_KernelLeavesHostBindingsAsTheyWere ==
    [][KernelStep =>
          /\ IDToValue' = IDToValue
          /\ ValueMap' = ValueMap
          /\ ScalarMap' = ScalarMap
          /\ InsertPoint' = InsertPoint]_vars

\* The scalars for which packing the launch parameters of kernel K takes the
\* host alloca: the read-only scalars among its arguments, or with managed
\* memory every scalar among them that has no entry in DeviceAllocations.
ScalarsPassedByHostAlloca(K) ==
    { S.arrays[i].name : i \in
        { j \in K.Kernel.requires :
            /\ S.arrays[j].n_index = 0
            /\ IF ManagedMemory
               THEN \A a \in DeviceAllocations : a.array # S.arrays[j].name
               ELSE ~S.arrays[j].written } }

\* C15 (amended): lowering a Kernel node leaves IDToValue and ValueMap as
\* they were before the node and the insertion point where it was; ScalarMap
\* keeps the entries it had, holds no alloca of the kernel function, and
\* gains a host alloca for exactly the scalars passed by host alloca that had
\* none.
C15_KernelLeavesNoKernelBinding ==
    [][KernelStep =>
          /\ IDToValue' = IDToValue
          /\ ValueMap' = ValueMap
          /\ InsertPoint' = InsertPoint
          /\ ScalarMap \subseteq ScalarMap'
          /\ ScalarMap' \cap lastKernel'[1].KernelScalarMap = {}
          /\ { e.array : e \in ScalarMap' \ ScalarMap }
                = { n \in ScalarsPassedByHostAlloca(lastKernel'[1]) :
                      \A e \in ScalarMap : e.array # n }
          /\ \A e \in ScalarMap' \ ScalarMap :
                e.alloca = <<InsertPoint, e.array>>]_vars

\* A kernel lowered after a transfer of a scalar: the kernel rebinds the
\* parameter and a host iterator, maps values to its arguments and has
\* allocas of its own; afterwards the host tables are back, and ScalarMap
\* has gained the host alloca of a read-only scalar.
C15_Witness ==
    /\ lastKernel # << >>
    /\ ~ManagedMemory
    /\ lastKernel[1].Kernel.space_set # << >>
    /\ lastKernel[1].KernelIDs # lastKernel[1].HostIDs
    /\ IDToValue = lastKernel[1].HostIDs
    /\ lastKernel[1].KernelValueMap # lastKernel[1].HostValueMap
    /\ ValueMap = lastKernel[1].HostValueMap
    /\ ValueMap # {}
    /\ lastKernel[1].KernelScalarMap # {}
    /\ lastKernel[1].HostScalarMap # {}
    /\ ScalarMap # lastKernel[1].HostScalarMap
    /\ visited[Len(visited)] = KernelNode

(***************************************************************************)
(* C16: the runtime calls of a kernel                                      *)
(***************************************************************************)
KernelCallNames == {"polly_getKernel", "polly_launchKernel", "polly_freeKernel"}

KernelCallsOf(code) == SelectSeq(code, LAMBDA c : c.call \in KernelCallNames)

\* C16: lowering a Kernel node appends to the host code, after the device
\* pointer lookups of its parameters, exactly one get-kernel call given the
\* kernel's finalized text and its entry-point name, then one launch and one
\* free, both applied to the value that get-kernel call returned; no other
\* step adds or removes such a call, so kernels are launched in traversal
\* order and each handle is freed before the next get-kernel call.
C16_GetLaunchFreePerKernelInOrder ==
    [][LET n == Len(hostCode')
           m == Len(hostCode)
       IN  IF KernelStep
           THEN /\ n >= m + 3
                /\ SubSeq(hostCode', 1, m) = hostCode
                /\ \A i \in (m + 1)..(n - 3) : hostCode'[i].call \notin KernelCallNames
                /\ hostCode'[n - 2].call = "polly_getKernel"
                /\ hostCode'[n - 2].args
                      = << lastKernel'[1].ASMString,
                           getKernelFuncName(lastKernel'[1].Kernel.id) >>
                /\ lastKernel'[1].Kernel.id = Len(KernelCallsOf(hostCode)) \div 3
                /\ hostCode'[n - 1].call = "polly_launchKernel"
                /\ hostCode'[n - 1].args[1] = <<"call", n - 2>>
                /\ hostCode'[n].call = "polly_freeKernel"
                /\ hostCode'[n].args = << <<"call", n - 2>> >>
           ELSE KernelCallsOf(hostCode') = KernelCallsOf(hostCode)]_vars

\* Two kernels lowered, the second one looking up a device pointer after
\* the first one's handle was freed.
C16_Witness ==
    /\ Len(KernelCallsOf(hostCode)) = 6
    /\ \E i, j \in DOMAIN hostCode :
          /\ i < j
          /\ hostCode[i].call = "polly_freeKernel"
          /\ hostCode[j].call = "polly_getDevicePtr"
    /\ hostCode[Len(hostCode)].call = "polly_freeKernel"
    /\ \E i \in DOMAIN hostCode :
          /\ hostCode[i].call = "polly_freeKernel"
          /\ hostCode[i].args # hostCode[Len(hostCode)].args

(***************************************************************************)
(* C17: extents of scalars and of arrays without access                    *)
(***************************************************************************)
UnaccessedArrayIsEmpty ==
    \A i \in DOMAIN S.arrays :
        (S.arrays[i].n_index > 0 /\ S.arrays[i].accessed = {}) =>
            /\ Prog[i].extent = {}
            /\ Prog[i].bound[1] = 0

\* C17 (as stated): the extent of every scalar is the universal set, whatever
\* the accesses of the region are; an array with dimensions and without
\* access has the empty extent and bound[0] = 0.
C17_ScalarExtentAlwaysUniversal ==
    Prog # << >> =>
        /\ \A i \in DOMAIN S.arrays :
              S.arrays[i].n_index = 0 => Prog[i].extent = { << >> }
        /\ UnaccessedArrayIsEmpty

\* C17 (amended): the extent of a scalar is the universal set if the region
\* has any access at all, to that scalar or to another array, and the empty
\* set if the region has none; an array with dimensions and without access
\* has the empty extent and bound[0] = 0.
C17_ScalarExtentUniversalUnlessNoAccess ==
    Prog # << >> =>
        /\ \A i \in DOMAIN S.arrays :
              S.arrays[i].n_index = 0 =>
                  Prog[i].extent = IF AccessUnion(S) = {} THEN {} ELSE { << >> }
        /\ UnaccessedArrayIsEmpty

\* The arrays were created for a region without any access that has a
\* scalar and a one-dimensional array.
C17_Witness ==
    /\ pc = "prog"
    /\ AccessUnion(S) = {}
    /\ \E i, j \in DOMAIN S.arrays :
          /\ S.arrays[i].n_index = 0
          /\ Prog[i].extent = {}
          /\ S.arrays[j].n_index = 1
          /\ Prog[j].bound = <<0>>

\* An unaccessed scalar next to an accessed array has the universal extent.
C17_WitnessUniversal ==
    /\ pc = "prog"
    /\ \E i, j \in DOMAIN S.arrays :
          /\ S.arrays[i].n_index = 0
          /\ S.arrays[i].accessed = {}
          /\ Prog[i].extent = { << >> }
          /\ S.arrays[j].accessed # {}

(***************************************************************************)
(* C18: the kill schedule and its place in the schedule of the region      *)
(***************************************************************************)
\* C18: the kill schedule is absent exactly if no array of the region is to
\* be killed and never has an empty domain; the schedule handed to PPCG is
\* the schedule of the region followed by the kill statements if the kill
\* schedule is present, and the schedule of the region itself otherwise.
C18_KillScheduleAbsentIffNothingToKill ==
    Analysed =>
        /\ (KillsInfo.KillsSchedule = << >>) <=> (ArraysToKill = {})
        /\ KillsInfo.KillsSchedule # << >> =>
              KillsInfo.KillsSchedule[1]
                = { <<"SKill_phantom_", S.arrays[i].name>> : i \in ArraysToKill }
        /\ PPCGScop # << >>
        /\ PPCGScop[1].schedule
              = IF ArraysToKill # {}
                THEN <<"sequence", S.schedule,
                       <<"domain", { <<"SKill_phantom_", S.arrays[i].name>> :
                                       i \in ArraysToKill }>> >>
                ELSE S.schedule

\* A region with a scalar that is used outside of it: nothing is killed, the
\* kill schedule is absent and PPCG gets the schedule of the region.
C18_Witness ==
    /\ pc = "prog"
    /\ \E i \in DOMAIN S.arrays : S.arrays[i].n_index = 0
    /\ ArraysToKill = {}
    /\ KillsInfo.KillsSchedule = << >>
    /\ PPCGScop[1].schedule = S.schedule

\* A region with two scalars to kill: both kill statements follow the
\* schedule of the region.
C18_WitnessSequenced ==
    /\ pc = "prog"
    /\ Cardinality(ArraysToKill) = 2
    /\ PPCGScop[1].schedule[1] = "sequence"
    /\ Cardinality(PPCGScop[1].schedule[3][2]) = 2

(***************************************************************************)
(* C19: the device pointers of the launch parameters                       *)
(***************************************************************************)
GetDevicePtrsOf(code) == SelectSeq(code, LAMBDA c : c.call = "polly_getDevicePtr")

\* C19: lowering a kernel with managed memory emits no polly_getDevicePtr
\* and takes the pointer of every required array from the host pointer,
\* which DeviceAllocations holds afterwards; without managed memory it emits
\* exactly one polly_getDevicePtr per required array, in their order, each
\* applied to the allocation made for that array at initialization, and
\* takes the result of that call as the pointer.  No other step emits such
\* a call.
C19_DevicePointerLookupUnlessManaged ==
    [][IF KernelStep
       THEN LET K    == lastKernel'[1]
                req  == RequiredArrays(Prog, K.Kernel)
                m    == Len(hostCode)
                ptrs == GetDevicePtrsOf(SubSeq(hostCode', m + 1, Len(hostCode')))
            IN  /\ Len(K.DevArrays) = Len(req)
                /\ IF ManagedMemory
                   THEN /\ ptrs = << >>
                        /\ \A j \in DOMAIN req :
                              /\ K.DevArrays[j].from = "host"
                              /\ K.DevArrays[j].array = Prog[req[j]].user.name
                              /\ \E a \in DeviceAllocations' :
                                    a.array = Prog[req[j]].user.name
                   ELSE /\ Len(ptrs) = Len(req)
                        /\ \A j \in DOMAIN req :
                              /\ hostCode'[m + j] = ptrs[j]
                              /\ ptrs[j].array = Prog[req[j]].user.name
                              /\ ptrs[j].args
                                    = << [array |-> Prog[req[j]].user.name,
                                          size  |-> TransferSize(Prog[req[j]])] >>
                              /\ ptrs[j].args[1] \in AllocatedDeviceArrays(Prog)
                              /\ K.DevArrays[j]
                                    = [array |-> Prog[req[j]].user.name,
                                       from  |-> "polly_getDevicePtr",
                                       at    |-> m + j]
       ELSE GetDevicePtrsOf(hostCode') = GetDevicePtrsOf(hostCode)]_vars

\* Without managed memory, a kernel that requires a scalar and an array was
\* lowered after another kernel: two lookups precede its get-kernel call.
C19_Witness ==
    /\ ~ManagedMemory
    /\ lastKernel # << >>
    /\ ~lastKernel[1].Fatal
    /\ Len(lastKernel[1].DevArrays) = 2
    /\ Len(hostCode) >= 5
    /\ hostCode[Len(hostCode) - 3].call = "polly_getDevicePtr"
    /\ hostCode[Len(hostCode) - 4].call = "polly_getDevicePtr"
    /\ Len(KernelCallsOf(hostCode)) = 6

\* With managed memory, a kernel that requires two arrays was lowered: the
\* host code has no lookup and both host pointers are remembered.
C19_WitnessManaged ==
    /\ ManagedMemory
    /\ lastKernel # << >>
    /\ Len(lastKernel[1].DevArrays) = 2
    /\ GetDevicePtrsOf(hostCode) = << >>
    /\ Cardinality(DeviceAllocations) = 2
    /\ Len(KernelCallsOf(hostCode)) = 3

(***************************************************************************)
(* C21: user nodes of no known type                                        *)
(***************************************************************************)
\* A step that lowers a user node createUser has no branch for.
DiscardStep ==
    /\ pc = "ast"
    /\ Len(visited') = Len(visited) + 1
    /\ createUserBranch(visited'[Len(visited')]) = "none"

\* C21: lowering a user node that is not a kernel, not a transfer and whose
\* annotation is of no known type emits no code and leaves the bindings, the
\* device allocations, the build-success flag, the deepest-loop counters and
\* the record of the kernel lowered last as they were.
C21_UnknownNodeIsDiscarded ==
    [][DiscardStep =>
          /\ hostCode' = hostCode
          /\ IDToValue' = IDToValue
          /\ ValueMap' = ValueMap
          /\ ScalarMap' = ScalarMap
          /\ InsertPoint' = InsertPoint
          /\ DeviceAllocations' = DeviceAllocations
          /\ BuildSuccessful' = BuildSuccessful
          /\ DeepestSequential' = DeepestSequential
          /\ DeepestParallel' = DeepestParallel
          /\ lastKernel' = lastKernel
          /\ RTC' = RTC
          /\ pc' = pc]_vars

\* A node of no known type was lowered right after a kernel inside a host
\* loop: the host code still ends with the kernel's free call.
C21_Witness ==
    /\ Len(visited) >= 2
    /\ createUserBranch(visited[Len(visited)]) = "none"
    /\ visited[Len(visited) - 1] = KernelNode
    /\ loops # << >>
    /\ hostCode[Len(hostCode)].call = "polly_freeKernel"
    /\ DeviceAllocations # {}

(***************************************************************************)
(* C22: the grid and the block of a launch                                 *)
(***************************************************************************)
\* C22: the launch call of a kernel is given, after the kernel handle, two
\* grid sizes and three block sizes and then the parameter block: dimension
\* i of the grid (of the block) is the kernel's grid_size[i] (block_dim[i])
\* if the kernel's grid (block) has that dimension and 1 otherwise, and every
\* dimension the kernel declares is among them.
C22_LaunchSizesPaddedWithOnes ==
    [][KernelStep =>
          LET K      == lastKernel'[1].Kernel
              launch == hostCode'[Len(hostCode') - 1]
          IN  /\ launch.call = "polly_launchKernel"
              /\ Len(launch.args) = 7
              /\ \A i \in 1..2 :
                    launch.args[1 + i]
                      = IF i <= K.n_grid THEN K.grid_size[i] ELSE 1
              /\ \A i \in 1..3 :
                    launch.args[3 + i]
                      = IF i <= K.n_block THEN K.block_dim[i] ELSE 1
              /\ K.n_grid <= 2
              /\ K.n_block <= 3
              /\ launch.args[7] = <<"Parameters", K.id>>]_vars

\* A kernel with a grid of one dimension and no block dimension was launched
\* after a kernel with a 3x2 grid of 4x5x6 blocks.
C22_Witness ==
    /\ Len(KernelCallsOf(hostCode)) = 6
    /\ \E i \in DOMAIN hostCode :
          /\ hostCode[i].call = "polly_launchKernel"
          /\ SubSeq(hostCode[i].args, 2, 6) = <<3, 2, 4, 5, 6>>
    /\ hostCode[Len(hostCode) - 1].call = "polly_launchKernel"
    /\ SubSeq(hostCode[Len(hostCode) - 1].args, 2, 6) = <<2, 1, 1, 1, 1>>
    /\ lastKernel[1].Kernel.n_grid = 1
    /\ lastKernel[1].Kernel.n_block = 0

(***************************************************************************)
(* C23: the module of the kernel                                           *)
(***************************************************************************)
\* C23: between two steps of the lowering no kernel is being generated, and
\* the generator holds no kernel module, whether the verification of the
\* kernels lowered so far succeeded or failed.
C23_NoModuleOutsideKernelGeneration ==
    pc \in {"ast", "skipped"} => GPUModule = ""

\* The module of a kernel that verifies is given up when the kernel is
\* finalized.
C23_ModuleGivenUpAfterVerifiedKernel ==
    (pc \in {"ast", "skipped"} /\ lastKernel # << >>
        /\ ~lastKernel[1].Kernel.verifyFails) => GPUModule = ""

\* A kernel whose module failed verification was lowered and the lowering
\* went on: the generator still holds that kernel's module at the end.
C23_Witness ==
    /\ pc = "skipped"
    /\ lastKernel # << >>
    /\ lastKernel[1].Kernel.verifyFails
    /\ ~FailOnVerifyModuleFailure
    /\ GPUModule = lastKernel[1].Name
    /\ GPUModule # ""

(***************************************************************************)
(* C24: the offset of an array of several dimensions                       *)
(***************************************************************************)
\* The location of element x in the row-major layout of an array whose
\* dimensions but the first have the sizes bound[2..n].
RECURSIVE RowMajorLocation(_, _, _, _)
RowMajorLocation(bound, x, i, Result) ==
    IF i > Len(x) THEN Result
    ELSE RowMajorLocation(bound, x, i + 1,
                          (IF i > 1 THEN Result * bound[i] ELSE Result) + x[i])

AccessedInSeveralDimensions(i) ==
    S.arrays[i].n_index >= 2 /\ S.arrays[i].accessed # {}

\* C24: for an accessed array of several dimensions, the offset is the
\* row-major location of the lexicographically smallest accessed element,
\* and there is no offset exactly if that element is the origin.
C24_OffsetIsRowMajorLocationOfMinimum ==
    Prog # << >> =>
        \A i \in DOMAIN S.arrays : AccessedInSeveralDimensions(i) =>
            LET m == CHOOSE x \in LexMin(S.arrays[i].accessed) : TRUE
            IN  getArrayOffset(Prog[i])
                  = IF \A d \in DOMAIN m : m[d] = 0 THEN << >>
                    ELSE << RowMajorLocation(Prog[i].bound, m, 1, 0) >>

\* What getArrayOffset computes for an accessed array of two dimensions: the
\* first accessed row times bound[0], the number of rows up to the last
\* accessed one, and no offset if the first row is accessed.
C24_OffsetScalesByOuterBound ==
    Prog # << >> =>
        \A i \in DOMAIN S.arrays :
            (S.arrays[i].n_index = 2 /\ S.arrays[i].accessed # {}) =>
                LET m0 == SetMin({ x[1] : x \in S.arrays[i].accessed })
                IN  getArrayOffset(Prog[i])
                      = IF m0 = 0 THEN << >> ELSE << m0 * Prog[i].bound[1] >>

\* An array of 4 columns of which the rows 1..2 are accessed from column 0
\* on: the first accessed element is at location 4, the offset is 3.
C24_Witness ==
    /\ pc = "prog"
    /\ S.arrays[1].n_index = 2
    /\ LexMin(S.arrays[1].accessed) = { <<1, 0>> }
    /\ Prog[1].bound = <<3, 4>>
    /\ RowMajorLocation(Prog[1].bound, <<1, 0>>, 1, 0) = 4
    /\ getArrayOffset(Prog[1]) = <<3>>

(***************************************************************************)
(* C25: sequential and parallel kernels                                    *)
(***************************************************************************)
\* C25: lowering a kernel raises DeepestParallel to the number of host loops
\* around it if its grid has more than one dimension, and DeepestSequential
\* otherwise, and leaves the other counter alone; no step lowers a counter;
\* and a region lowered with DeepestSequential above DeepestParallel has the
\* constant false as its guard, also when the build was successful.
C25_MostlySequentialRegionIsDisabled ==
    /\ [][KernelStep =>
             LET K == lastKernel'[1].Kernel
             IN  IF K.n_grid > 1
                 THEN /\ DeepestParallel' = Max2(DeepestParallel, Len(loops))
                      /\ DeepestSequential' = DeepestSequential
                 ELSE /\ DeepestSequential' = Max2(DeepestSequential, Len(loops))
                      /\ DeepestParallel' = DeepestParallel]_vars
    /\ [][/\ DeepestSequential' >= DeepestSequential
          /\ DeepestParallel' >= DeepestParallel]_vars
    /\ [](pc = "skipped" /\ DeepestSequential > DeepestParallel => RTC = "false")

\* A region with a parallel kernel outside of loops and a kernel with a grid
\* of one dimension inside a loop, both built without failure, is disabled.
C25_Witness ==
    /\ pc = "skipped"
    /\ BuildSuccessful
    /\ Len(KernelCallsOf(hostCode)) = 6
    /\ DeepestSequential = 1
    /\ DeepestParallel = 0
    /\ lastKernel[1].Kernel.n_grid = 1
    /\ \E i \in DOMAIN hostCode :
          /\ hostCode[i].call = "polly_launchKernel"
          /\ SubSeq(hostCode[i].args, 2, 3) = <<3, 2>>
    /\ RTC = "false"

(***************************************************************************)
(* C26: scalars at the entry and the exit of a kernel                      *)
(***************************************************************************)
BodyOps == {"stmt", "shared.read", "shared.write", "barrier0"}

\* The positions of the instructions op of argument j in code.
OpsAt(code, op, j) == { i \in DOMAIN code : code[i].op = op /\ code[i].arg = j }

BodyAt(code) == { i \in DOMAIN code : code[i].op \in BodyOps }

\* C26: in the kernel lowered last, a required scalar that is not read-only
\* is loaded through its argument once and stored into its alloca before
\* every instruction of the body, and loaded from the alloca and stored
\* through the argument once after every instruction of the body; a
\* read-only scalar is stored from the argument into its alloca before the
\* body and never stored back; an argument of an array with dimensions is
\* neither loaded nor stored.
C26_ScalarsLoadedAtEntryStoredAtExit ==
    lastKernel # << >> =>
        LET K    == lastKernel[1]
            code == K.Code
            req  == RequiredArrays(Prog, K.Kernel)
            ops(j) == { i \in DOMAIN code : code[i].arg = j }
        IN  /\ SelectSeq(code, LAMBDA c : c.op \in BodyOps)
                  = [ i \in DOMAIN K.Body |->
                        [op |-> K.Body[i].op, stmt |-> K.Body[i].stmt,
                         array |-> "", arg |-> 0] ]
            /\ \A j \in DOMAIN req :
                  LET Array == Prog[req[j]]
                  IN  /\ \A i \in ops(j) : code[i].array = Array.user.name
                      /\ IF Array.user.n_index > 0 THEN ops(j) = {}
                         ELSE IF ~Array.read_only_scalar
                         THEN /\ Cardinality(ops(j)) = 4
                              /\ \E i \in OpsAt(code, "load.arg", j) :
                                    /\ code[i + 1].op = "store.alloca.loaded"
                                    /\ code[i + 1].arg = j
                                    /\ \A b \in BodyAt(code) : i + 1 < b
                              /\ \E i \in OpsAt(code, "store.arg", j) :
                                    /\ code[i - 1].op = "load.alloca"
                                    /\ code[i - 1].arg = j
                                    /\ \A b \in BodyAt(code) : b < i - 1
                         ELSE /\ Cardinality(ops(j)) = 1
                              /\ \E i \in OpsAt(code, "store.alloca.arg", j) :
                                    \A b \in BodyAt(code) : i < b

\* A kernel with a body of three nodes whose arguments are an array, a
\* written scalar and a read-only scalar.
C26_Witness ==
    /\ lastKernel # << >>
    /\ Len(lastKernel[1].Body) = 3
    /\ Len(RequiredArrays(Prog, lastKernel[1].Kernel)) = 3
    /\ Len(lastKernel[1].Code) = 8
    /\ lastKernel[1].Code[1].op = "load.arg"
    /\ lastKernel[1].Code[3].op = "store.alloca.arg"
    /\ lastKernel[1].Code[8].op = "store.arg"
    /\ lastKernel[1].Code[8].array = "s"

(***************************************************************************)
(* C27: allocation, transfer and addressing of an array with an offset     *)
(***************************************************************************)
\* The offset of an array in elements, 0 if it has none.
OffsetOrZero(Array) ==
    IF getArrayOffset(Array) # << >> THEN getArrayOffset(Array)[1] ELSE 0

ArrayIndex(name) == CHOOSE i \in DOMAIN Prog : Prog[i].user.name = name

\* The bytes of the whole array minus those of the elements before the offset.
BytesFromOffset(Array) ==
    Array.size * Product(Array.bound) - OffsetOrZero(Array) * Array.size

\* Whether the kernel's pointer, moved by moved elements from the start of
\* an allocation of bytes bytes that holds the host elements from the offset
\* on, reaches for every index of the extent the copy of that host element
\* inside the allocation.
AddressesCopyOf(Array, moved, bytes) ==
    \A x \in Array.extent :
        LET at == RowMajorLocation(Array.bound, x, 1, 0) + moved
        IN  /\ at >= 0
            /\ (at + 1) * Array.size <= bytes
            /\ at + OffsetOrZero(Array) = RowMajorLocation(Array.bound, x, 1, 0)

\* C27: without managed memory the allocation of every array with
\* dimensions and every transfer of it cover the bytes of the array from the
\* offset on, transfers start at the host element at the offset, and the
\* pointer a kernel receives is the device pointer moved back by the offset,
\* so that every index of the extent is addressed inside the allocation at
\* the copy of its host element; with managed memory the kernel receives the
\* base pointer on the host.
C27_AllocationTransferAndKernelAgree ==
    Prog # << >> =>
        /\ \A a \in DeviceAllocations :
              (~ManagedMemory /\ Prog[ArrayIndex(a.array)].n_index > 0) =>
                  a.size = BytesFromOffset(Prog[ArrayIndex(a.array)])
        /\ \A i \in CallsAt({"polly_copyFromHostToDevice",
                              "polly_copyFromDeviceToHost"}) :
              LET Array == Prog[ArrayIndex(hostCode[i].array)]
              IN  Array.n_index > 0 =>
                      hostCode[i].args
                        = << OffsetOrZero(Array), BytesFromOffset(Array) >>
        /\ lastKernel # << >> =>
              \A j \in DOMAIN lastKernel[1].Pointers :
                  LET P     == lastKernel[1].Pointers[j]
                      Array == Prog[ArrayIndex(P.array)]
                  IN  Array.n_index > 0 =>
                        IF ManagedMemory
                        THEN P.from = "host" /\ P.moved = 0
                        ELSE /\ P.from = "device"
                             /\ P.moved = 0 - OffsetOrZero(Array)
                             /\ AddressesCopyOf(Array, P.moved,
                                                BytesFromOffset(Array))

\* The same for the arrays of one dimension only.
C27_AgreeInOneDimension ==
    Prog # << >> =>
        /\ \A i \in CallsAt({"polly_copyFromHostToDevice",
                              "polly_copyFromDeviceToHost"}) :
              LET Array == Prog[ArrayIndex(hostCode[i].array)]
              IN  Array.n_index = 1 =>
                      hostCode[i].args
                        = << OffsetOrZero(Array), BytesFromOffset(Array) >>
        /\ lastKernel # << >> =>
              \A j \in DOMAIN lastKernel[1].Pointers :
                  LET P     == lastKernel[1].Pointers[j]
                      Array == Prog[ArrayIndex(P.array)]
                  IN  Array.n_index = 1 =>
                        IF ManagedMemory
                        THEN P.from = "host" /\ P.moved = 0
                        ELSE /\ P.from = "device"
                             /\ P.moved = 0 - OffsetOrZero(Array)
                             /\ AddressesCopyOf(Array, P.moved,
                                                BytesFromOffset(Array))

\* A kernel was launched on an array of 2 columns of which only row 2 is
\* accessed: the offset is 6 elements, the allocation holds 0 bytes, and the
\* element (2, 0), at location 4, is addressed before the allocation.
C27_Witness ==
    /\ lastKernel # << >>
    /\ ~ManagedMemory
    /\ Len(lastKernel[1].Pointers) = 1
    /\ Prog[1].n_index = 2
    /\ Prog[1].bound = <<3, 2>>
    /\ <<2, 0>> \in Prog[1].extent
    /\ lastKernel[1].Pointers[1].moved = 0 - 6
    /\ \E a \in DeviceAllocations : a.array = Prog[1].user.name /\ a.size = 0

(***************************************************************************)
(* C28: kernels with an empty text                                         *)
(***************************************************************************)
\* The polly_getKernel calls of the host code that were given an empty text.
EmptyTextKernels ==
    { i \in CallsAt({"polly_getKernel"}) : hostCode[i].args[1] = "" }

\* C28: once the AST of a region is lowered, if the finalizer returned an
\* empty text for one of its kernels, for whatever reason, BuildSuccessful
\* is false and the guard of the region is false.
C28_EmptyTextDisablesRegion ==
    (pc = "skipped" /\ EmptyTextKernels # {}) =>
        ~BuildSuccessful /\ RTC = "false"

\* The same where the target is found and emits assembly files, so that an
\* empty text can only come from a module that failed verification.
C28_FailedVerificationDisablesRegion ==
    (pc = "skipped" /\ EmptyTextKernels # {} /\ GPUTarget = "found") =>
        ~BuildSuccessful /\ RTC = "false"

\* The target registry knows no NVPTX target: the module of the kernel
\* verified and was released, its text is empty, the kernel is launched and
\* the guard of the region is still the run-time check.
C28_Witness ==
    /\ pc = "skipped"
    /\ Arch = "NVPTX64"
    /\ GPUTarget = "missing"
    /\ EmptyTextKernels # {}
    /\ \A i \in EmptyTextKernels : hostCode[i + 1].call = "polly_launchKernel"
    /\ lastKernel # << >>
    /\ ~lastKernel[1].Kernel.verifyFails
    /\ lastKernel[1].Steps = << "verifyModule", "OptPasses.run", "createKernelASM" >>
    /\ BuildSuccessful
    /\ RTC = "RTC"

(***************************************************************************)
(* C29: the context of the host runtime                                    *)
(***************************************************************************)
\* C29: with and without managed memory, while the AST of a region is
\* lowered the host code starts with the only call to polly_initContext and
\* holds no call to polly_freeContext; once it is lowered the host code ends
\* with the only call to polly_freeContext, behind every other call, and
\* that call is given the value of the call to polly_initContext.
C29_OneContextAroundAllCalls ==
    /\ pc \in {"ast", "skipped"} =>
          /\ CallsAt({"polly_initContext"}) = {1}
          /\ GPUContext = <<"call", 1>>
    /\ pc = "ast" => CallsAt({"polly_freeContext"}) = {}
    /\ pc = "skipped" =>
          /\ CallsAt({"polly_freeContext"}) = {Len(hostCode)}
          /\ Len(hostCode) > 1
          /\ hostCode[Len(hostCode)].args = << <<"call", 1>> >>

\* A region lowered without managed memory whose host code frees a kernel
\* and a device array before it frees the context.
C29_Witness ==
    /\ pc = "skipped"
    /\ ~ManagedMemory
    /\ CallsAt({"polly_freeKernel"}) # {}
    /\ CallsAt({"polly_freeDeviceMemory"}) # {}
    /\ hostCode[1].call = "polly_initContext"
    /\ hostCode[Len(hostCode)].call = "polly_freeContext"
    /\ hostCode[Len(hostCode) - 1].call = "polly_freeDeviceMemory"

\* The same with managed memory: the context is freed right after the kernel.
C29_WitnessManaged ==
    /\ pc = "skipped"
    /\ ManagedMemory
    /\ hostCode[Len(hostCode) - 1].call = "polly_freeKernel"
    /\ hostCode[Len(hostCode)].call = "polly_freeContext"

(***************************************************************************)
(* C30: the size words of the launch parameter block                       *)
(***************************************************************************)
\* The size word written for formal argument i of kernel K.
SizeWord(K, i) == K.Parameters[Len(K.FN) + i].size

\* C30: every size word of the launch parameter block of a kernel is
\* strictly positive, whatever the type of the argument it describes.
C30_SizeWordsArePositive ==
    lastKernel # << >> =>
        \A i \in DOMAIN lastKernel[1].Parameters :
            lastKernel[1].Parameters[i].slot = "size" =>
                lastKernel[1].Parameters[i].size > 0

\* The size word of an array or scalar of the region is the size of its
\* element type, and that of any other argument whose type is an integer or
\* floating-point type of at least 8 bits is the size of that type; the
\* size word of any other argument of pointer type or of type i1 is 0.
C30_SizeWordsOfByteSizedTypes ==
    lastKernel # << >> =>
        LET K == lastKernel[1]
        IN  \A i \in DOMAIN K.FN :
                IF K.FN[i].ent[1] = "array"
                THEN SizeWord(K, i) > 0
                ELSE IF K.FN[i].ty \in {"i1", "ptr"}
                     THEN SizeWord(K, i) = 0
                     ELSE SizeWord(K, i) = getPrimitiveSizeInBits(K.FN[i].ty) \div 8
                          /\ SizeWord(K, i) > 0

\* A kernel that uses the value b of type i1 computed before the region: the
\* size word of its argument is 0.
C30_Witness ==
    /\ lastKernel # << >>
    /\ \E i \in DOMAIN lastKernel[1].FN :
          /\ lastKernel[1].FN[i] = [ent |-> <<"value", "b">>, ty |-> "i1"]
          /\ lastKernel[1].Parameters[i].slot = "value"
          /\ lastKernel[1].Parameters[Len(lastKernel[1].FN) + i].slot = "size"
          /\ SizeWord(lastKernel[1], i) = 0

====
